---- MODULE Spec2Model ----
(***************************************************************************)
(* A model of the tree-walking evaluator of ay (src/src/ay): the value     *)
(* model (values.py), the virtual machine (vm.py) and the AST node         *)
(* evaluator (ast_nodes.py).                                               *)
(*                                                                         *)
(* The interpreter state is a record st with the heaps of the Python       *)
(* objects that have identity (scopes, tables, functions) and the Python   *)
(* exception in flight (st.exc).  Every evaluate/execute method of the     *)
(* source is an operator from (node, scope, st) to a new st and a result.  *)
(***************************************************************************)
EXTENDS Integers, Sequences, FiniteSets, TLC

VARIABLES vm, last, nexec

vars == <<vm, last, nexec>>

(***************************************************************************)
(* Bounds of the model.                                                    *)
(***************************************************************************)
\* width of the integer word of the model (the source uses 64)
WordBits == 8
\* number of entries a table's dict may grow to in the table machine
MaxMapLen == 3
\* number of operations of one behaviour of the table machine
MaxTableOps == 3
\* number of chunks one VirtualMachine executes
MaxExecs == 2
\* largest start and limit of the numeric for loops executed
MaxLoop == 4
\* largest number of targets of an assignment and of values f returns
MaxNames == 3

(***************************************************************************)
(* values.py: the value model.                                             *)
(***************************************************************************)
MAX_INT64 == 2 ^ (WordBits - 1) - 1
MIN_INT64 == -(2 ^ (WordBits - 1))

LuaNil == [t |-> "nil"]
LuaBool(b) == [t |-> "bool", v |-> b]
\* LuaNumber(n, INTEGER)
LuaInt(n) == [t |-> "int", v |-> n]
\* LuaNumber(h / 2, FLOAT): a float is held as its number of halves
LuaFloat(h) == [t |-> "float", nan |-> FALSE, v |-> h]
\* LuaNumber(float("nan"), FLOAT)
LuaNaN == [t |-> "float", nan |-> TRUE, v |-> 0]
LuaString(s) == [t |-> "str", v |-> s]
\* a reference to the LuaTable object id of the heap
LuaTableRef(id) == [t |-> "table", v |-> id]
\* a reference to the LuaFunction object id of the heap
LuaFunctionRef(id) == [t |-> "func", v |-> id]

IsNumber(x) == x.t \in {"int", "float"}
IsNaN(x) == x.t = "float" /\ x.nan

\* the Python exceptions of the source; NoExc is "no exception in flight"
NoExc == [t |-> "none"]
NotImplementedError == [t |-> "NotImplementedError"]
AssertionError == [t |-> "AssertionError"]
BreakException == [t |-> "BreakException"]
GotoException(name) == [t |-> "GotoException", name |-> name]

\* Python's float.__eq__ on the values held by two LuaNumbers of type FLOAT
PyFloatEq(a, b) == ~a.nan /\ ~b.nan /\ a.v = b.v

\* Python's float.is_integer()
PyIsInteger(a) == ~a.nan /\ a.v % 2 = 0

\* the number of halves of the mathematical value of a number that is no NaN
Halves(x) == IF x.t = "int" THEN 2 * x.v ELSE x.v

\* operations.rel_eq, as LuaValue.__eq__ uses it
RelEq(a, b) ==
    IF IsNumber(a) /\ IsNumber(b)
    THEN ~IsNaN(a) /\ ~IsNaN(b) /\ Halves(a) = Halves(b)
    ELSE a = b

PyHashMutant(x) ==
    CASE x.t = "nil" -> <<"none">>
      [] x.t = "bool" -> <<"num", IF x.v THEN 2 ELSE 0>>
      [] x.t = "int" -> <<"num", 2 * x.v>>
      [] x.t = "float" -> <<"float", x.v>>
      [] x.t = "str" -> <<"bytes", x.v>>
      [] OTHER -> <<x.t, x.v>>

\* __hash__ of the value classes: hash(None), hash(self.true),
\* hash(self.value), hash(self.content), and the identity hash of objects.
\* Python hashes a float of integral value as the int, and True as 1.
PyHash(x) ==
    CASE x.t = "nil" -> <<"none">>
      [] x.t = "bool" -> <<"num", IF x.v THEN 2 ELSE 0>>
      [] x.t = "int" -> <<"num", 2 * x.v>>
      [] x.t = "float" -> IF x.nan THEN <<"nan">> ELSE <<"num", x.v>>
      [] x.t = "str" -> <<"bytes", x.v>>
      [] OTHER -> <<x.t, x.v>>

\* `a is b` for a key object handed to a dict operation: LuaNil is a
\* singleton, tables and functions are the heap objects; a number, a bool
\* or a string is a new object at every evaluation.
PyIs(a, b) == a.t \in {"nil", "table", "func"} /\ a = b

\* the lookup of a Python dict: the index of the entry of map whose key
\* matches key (same hash, and identical or equal), 0 when there is none
DictFind(map, key) ==
    LET hits == {i \in 1..Len(map) :
                    /\ PyHash(map[i].k) = PyHash(key)
                    /\ (PyIs(map[i].k, key) \/ RelEq(map[i].k, key))}
    IN IF hits = {} THEN 0 ELSE CHOOSE i \in hits : \A j \in hits : i <= j

\* map[key] = value of a Python dict (the first key object stays)
DictSet(map, key, value) ==
    LET i == DictFind(map, key)
    IN IF i = 0 THEN Append(map, [k |-> key, v |-> value])
       ELSE [map EXCEPT ![i].v = value]

\* LuaTable(): an empty dict and no metatable (0 stands for LuaNil)
NewTable == [map |-> <<>>, meta |-> 0]

\* LuaTable.put(key, value), raw
LuaTablePut(tables, id, key, value) ==
    IF key = LuaNil
    THEN [tables |-> tables, exc |-> NotImplementedError]
    ELSE IF key.t = "float" /\ PyFloatEq(key, LuaNaN)
    THEN [tables |-> tables, exc |-> NotImplementedError]
    ELSE LET nkey == IF key.t = "float" /\ PyIsInteger(key)
                     THEN LuaInt(key.v \div 2)
                     ELSE key
         IN [tables |-> [tables EXCEPT ![id].map = DictSet(@, nkey, value)],
             exc |-> NoExc]

\* LuaTable.get(key), raw
LuaTableGet(tables, id, key) ==
    LET i == DictFind(tables[id].map, key)
    IN IF i # 0 THEN tables[id].map[i].v ELSE LuaNil

\* LuaTable.has(key)
LuaTableHas(tables, id, key) == DictFind(tables[id].map, key) # 0

\* LuaTable.get_with_fallback(key, fallback)
LuaTableGetWithFallback(tables, id, key, fallback) ==
    LET i == DictFind(tables[id].map, key)
    IN IF i # 0 THEN tables[id].map[i].v ELSE fallback

\* LuaTable.get_metatable of the table id: the id of its metatable, 0 for
\* LuaNil
GetMetatable(tables, id) == tables[id].meta

\* LuaValue.has_metamethod(name) of the table id
HasMetamethod(tables, id, name) ==
    LET metatable == GetMetatable(tables, id)
    IN IF metatable = 0 THEN FALSE ELSE LuaTableHas(tables, metatable, name)

\* LuaValue.get_metamethod(name) of the table id; None is [t |-> "None"]
GetMetamethod(tables, id, name) ==
    LET metatable == GetMetatable(tables, id)
    IN IF metatable = 0 THEN [t |-> "None"]
       ELSE LuaTableGetWithFallback(tables, metatable, name, [t |-> "None"])

(***************************************************************************)
(* vm.py and the Scope chain.  A Scope is [parent, vars]: parent is the    *)
(* id of the parent Scope (0 for the root Scope) and vars the dict from    *)
(* LuaString names to Variables.                                           *)
(***************************************************************************)
\* VirtualMachine.globals and VirtualMachine.root_scope
GlobalsId == 1
RootScope == 1

\* Variable(value, constant, to_be_closed)
Variable(value) ==
    [value |-> value, constant |-> FALSE, to_be_closed |-> FALSE]

LuaError(kind) == [t |-> "LuaError", kind |-> kind]

Raise(st, e) == [st EXCEPT !.exc = e]
Raised(st) == st.exc # NoExc

\* Scope.push(): a new Scope whose parent is sid; its id is the new length
ScopePush(st, sid) ==
    [st EXCEPT !.scopes = Append(@, [parent |-> sid, vars |-> <<>>])]

NewScopeId(st) == Len(st.scopes) + 1

\* Scope.has_ls(key): the Scope itself declares key
ScopeHas(st, sid, key) == DictFind(st.scopes[sid].vars, key) # 0

\* Scope.put_local_ls(key, variable): binds key in this Scope only
ScopePutLocal(st, sid, key, variable) ==
    [st EXCEPT !.scopes[sid].vars = DictSet(@, key, variable)]

\* VirtualMachine.put_nonlocal_ls(key, value)
VMPutNonlocal(st, key, value) ==
    LET r == LuaTablePut(st.tables, GlobalsId, key, value)
    IN [st EXCEPT !.tables = r.tables, !.exc = r.exc]

RECURSIVE ScopeGet(_, _, _)
\* Scope.get_ls(key): the nearest binding of the chain, else the global
ScopeGet(st, sid, key) ==
    LET i == DictFind(st.scopes[sid].vars, key)
    IN IF i # 0 THEN st.scopes[sid].vars[i].v.value
       ELSE IF st.scopes[sid].parent # 0
       THEN ScopeGet(st, st.scopes[sid].parent, key)
       ELSE LuaTableGet(st.tables, GlobalsId, key)

\* VirtualMachine.get_ls(key)
VMGet(st, key) ==
    IF ScopeHas(st, RootScope, key) THEN ScopeGet(st, RootScope, key)
    ELSE LuaTableGet(st.tables, GlobalsId, key)

RECURSIVE ScopePutNonlocal(_, _, _, _)
\* Scope.put_nonlocal_ls(key, value): mutates the nearest binding of the
\* chain in place; with no binding the VirtualMachine writes the global
ScopePutNonlocal(st, sid, key, value) ==
    LET i == DictFind(st.scopes[sid].vars, key)
    IN IF i # 0
       THEN IF st.scopes[sid].vars[i].v.constant
            THEN Raise(st, LuaError("ConstError"))
            ELSE [st EXCEPT !.scopes[sid].vars[i].v.value = value]
       ELSE IF st.scopes[sid].parent # 0
       THEN ScopePutNonlocal(st, st.scopes[sid].parent, key, value)
       ELSE VMPutNonlocal(st, key, value)

(***************************************************************************)
(* operations.py.  The result of Expression.evaluate is an item            *)
(* [multi, vals]: a single LuaValue (multi = FALSE, one value) or a        *)
(* Python list of values, a multires (multi = TRUE).                       *)
(***************************************************************************)
Single(v) == [multi |-> FALSE, vals |-> <<v>>]
Multi(vs) == [multi |-> TRUE, vals |-> vs]

\* operations.adjust_to_one
AdjustToOne(item) ==
    IF item.multi /\ item.vals = <<>> THEN LuaNil ELSE item.vals[1]

\* operations.adjust_flatten: every item but the last gives one value, a
\* last item that is a multires gives all of its values
AdjustFlatten(items) ==
    IF items = <<>> THEN <<>>
    ELSE LET n == Len(items)
             front == [i \in 1..(n - 1) |-> AdjustToOne(items[i])]
         IN IF items[n].multi THEN front \o items[n].vals
            ELSE Append(front, items[n].vals[1])

\* operations.adjust(multires, needed)
Adjust(items, needed) ==
    LET flat == AdjustFlatten(items)
    IN [i \in 1..needed |-> IF i <= Len(flat) THEN flat[i] ELSE LuaNil]

\* flatten of ast_nodes.py: every list among the items is spliced in
RECURSIVE Flatten(_)
Flatten(items) ==
    IF items = <<>> THEN <<>>
    ELSE (IF Head(items).multi THEN Head(items).vals
          ELSE <<Head(items).vals[1]>>) \o Flatten(Tail(items))

\* the truth of operations.coerce_to_bool(item): only nil and false are
\* false
CoerceToBool(item) ==
    LET v == AdjustToOne(item)
    IN ~(v = LuaNil \/ v = LuaBool(FALSE))

\* operations.int_wrap_overflow: two's-complement wrap into the word
IntWrap(n) == ((n - MIN_INT64) % (2 ^ WordBits)) + MIN_INT64

\* operations.coerce_int_to_float
CoerceIntToFloat(x) == IF x.t = "int" THEN LuaFloat(2 * x.v) ELSE x

\* operations.arith_add; the result is [exc, v]
ArithAdd(a, b) ==
    IF ~(IsNumber(a) /\ IsNumber(b))
    THEN [exc |-> LuaError("TypeError"), v |-> LuaNil]
    ELSE IF a.t = "int" /\ b.t = "int"
    THEN [exc |-> NoExc, v |-> LuaInt(IntWrap(a.v + b.v))]
    ELSE IF IsNaN(a) \/ IsNaN(b) THEN [exc |-> NoExc, v |-> LuaNaN]
    ELSE [exc |-> NoExc, v |-> LuaFloat(Halves(a) + Halves(b))]

\* operations.overflow_arith_add: (overflow, wrapped sum)
OverflowArithAdd(a, b) ==
    [overflow |-> a.t = "int" /\ b.t = "int"
                    /\ (a.v + b.v > MAX_INT64 \/ a.v + b.v < MIN_INT64),
     v |-> ArithAdd(a, b).v]

\* operations.rel_lt and operations.rel_le; the result is [exc, v]
RelLt(a, b) ==
    IF ~(IsNumber(a) /\ IsNumber(b))
    THEN [exc |-> LuaError("TypeError"), v |-> LuaNil]
    ELSE [exc |-> NoExc,
          v |-> LuaBool(~IsNaN(a) /\ ~IsNaN(b) /\ Halves(a) < Halves(b))]

RelLe(a, b) ==
    IF ~(IsNumber(a) /\ IsNumber(b))
    THEN [exc |-> LuaError("TypeError"), v |-> LuaNil]
    ELSE [exc |-> NoExc,
          v |-> LuaBool(~IsNaN(a) /\ ~IsNaN(b) /\ Halves(a) <= Halves(b))]

\* binary_operator_functions[op](left, right)
BinaryOperatorFunction(op, left, right) ==
    CASE op = "+" -> ArithAdd(left, right)
      [] op = "<" -> RelLt(left, right)
      [] op = "<=" -> RelLe(left, right)
      [] op = ">" -> RelLt(right, left)
      [] op = ">=" -> RelLe(right, left)
      [] op = "==" -> [exc |-> NoExc, v |-> LuaBool(RelEq(left, right))]
      [] op = "~=" -> [exc |-> NoExc, v |-> LuaBool(~RelEq(left, right))]

(***************************************************************************)
(* ast_nodes.py: the evaluator.  An AST node is a record whose field node  *)
(* names its class and whose other fields are the attributes of the class. *)
(* Expression.evaluate gives [st, multi, vals], Statement.execute gives    *)
(* [st, r] where r is the returned list (None and [] are both <<>>).       *)
(* A Python exception in flight is st.exc: every step after it is skipped  *)
(* up to the except clause that catches it.                                *)
(***************************************************************************)
\* Python's None where the source has an optional attribute
None == [node |-> "None"]

RS(st, v) == [st |-> st, multi |-> FALSE, vals |-> <<v>>]
RM(st, vs) == [st |-> st, multi |-> TRUE, vals |-> vs]
Item(r) == [multi |-> r.multi, vals |-> r.vals]
XR(st, r) == [st |-> st, r |-> r]

RECURSIVE Evaluate(_, _, _)
RECURSIVE EvaluateList(_, _, _, _, _)
RECURSIVE Execute(_, _, _)
RECURSIVE ExecuteStatements(_, _, _, _, _)
RECURSIVE LuaFunctionCall(_, _, _, _)
RECURSIVE TableConstructorFields(_, _, _, _, _, _)
RECURSIVE AssignmentTargets(_, _, _, _, _)
RECURSIVE LocalAssignmentTargets(_, _, _, _, _, _)
RECURSIVE IfBlocks(_, _, _, _)
RECURSIVE WhileLoop(_, _, _, _)
RECURSIVE RepeatLoop(_, _, _)
RECURSIVE ForLoop(_, _, _, _)
RECURSIVE ForInLoop(_, _, _, _)
RECURSIVE FunctionStatementTable(_, _, _, _)

\* A local variable of the source: With(v, LAMBDA name : K) is the code K
\* after the assignment name = v.
With(v, K(_)) == K(v)

\* Expression.evaluate_single
EvaluateSingle(e, sid, st) ==
    With(Evaluate(e, sid, st), LAMBDA r :
        IF Raised(r.st) THEN r ELSE RS(r.st, AdjustToOne(Item(r))))

\* [expr.evaluate(scope) for expr in exprs], from the i-th on
EvaluateList(exprs, i, sid, st, acc) ==
    IF i > Len(exprs) THEN [st |-> st, items |-> acc]
    ELSE With(Evaluate(exprs[i], sid, st), LAMBDA r :
            IF Raised(r.st) THEN [st |-> r.st, items |-> acc]
            ELSE EvaluateList(exprs, i + 1, sid, r.st, Append(acc, Item(r))))

\* Block.execute_without_inner_scope: the statements only
ExecuteWithoutInnerScope(b, sid, st) ==
    ExecuteStatements(b.statements, 1, sid, st, <<>>)

\* for stmt in self.statements: v = stmt.execute(scope)
ExecuteStatements(stmts, i, sid, st, v) ==
    IF i > Len(stmts) THEN XR(st, v)
    ELSE With(Execute(stmts[i], sid, st), LAMBDA x :
            IF Raised(x.st) THEN XR(x.st, <<>>)
            ELSE ExecuteStatements(stmts, i + 1, sid, x.st, x.r))

\* Block.evaluate_without_inner_scope
EvaluateWithoutInnerScope(b, sid, st) ==
    With(ExecuteStatements(b.statements, 1, sid, st, <<>>), LAMBDA x :
        IF Raised(x.st) THEN RM(x.st, <<>>)
        ELSE IF b.return_statement # None
        THEN With(EvaluateList(b.return_statement.values, 1, sid, x.st, <<>>),
                  LAMBDA l :
                      IF Raised(l.st) THEN RM(l.st, <<>>)
                      ELSE RM(l.st, Flatten(l.items)))
        ELSE RM(x.st, x.r))

\* the parameters bound in the Scope of a call
BindParameters(st, sid, names, values) ==
    [st EXCEPT !.scopes[sid].vars =
        [i \in 1..Len(names) |->
            [k |-> LuaString(names[i]), v |-> Variable(values[i])]]]

\* LuaFunction.call(args, scope) of a closure: a new Scope under the
\* captured Scope, the arguments adjusted to the parameters, the body run
LuaFunctionCall(fid, items, sid, st) ==
    EvaluateWithoutInnerScope(
        st.funcs[fid].block, NewScopeId(st),
        BindParameters(ScopePush(st, st.funcs[fid].parent_scope),
                       NewScopeId(st), st.funcs[fid].param_names,
                       Adjust(items, Len(st.funcs[fid].param_names))))

\* VarIndex.evaluate
VarIndexEvaluate(e, sid, st) ==
    With(Evaluate(e.base, sid, st), LAMBDA table :
        IF Raised(table.st) THEN table
        ELSE IF table.multi \/ table.vals[1].t # "table"
        THEN RM(Raise(table.st, AssertionError), <<>>)
        ELSE With(EvaluateSingle(e.index, sid, table.st), LAMBDA index :
                IF Raised(index.st) THEN index
                ELSE RS(index.st, LuaTableGet(index.st.tables,
                                              table.vals[1].v,
                                              index.vals[1]))))

\* the key of a field of a TableConstructor
FieldKey(field, counter, sid, st) ==
    IF field.node = "FieldCounterKey" THEN RS(st, LuaInt(counter))
    ELSE IF field.key.node = "Name" THEN RS(st, LuaString(field.key.name))
    ELSE EvaluateSingle(field.key, sid, st)

\* the fields of a TableConstructor but a last positional one, from the
\* i-th on; the result is [st, counter]
TableConstructorFields(fields, i, counter, tid, sid, st) ==
    IF i > Len(fields) THEN [st |-> st, counter |-> counter]
    ELSE With(FieldKey(fields[i], counter, sid, st), LAMBDA key :
        IF Raised(key.st) THEN [st |-> key.st, counter |-> counter]
        ELSE With(EvaluateSingle(fields[i].value, sid, key.st), LAMBDA value :
            IF Raised(value.st) THEN [st |-> value.st, counter |-> counter]
            ELSE With(LuaTablePut(value.st.tables, tid, key.vals[1],
                                  value.vals[1]), LAMBDA put :
                IF put.exc # NoExc
                THEN [st |-> Raise(value.st, put.exc), counter |-> counter]
                ELSE TableConstructorFields(fields, i + 1,
                        IF fields[i].node = "FieldCounterKey" THEN counter + 1
                        ELSE counter,
                        tid, sid, [value.st EXCEPT !.tables = put.tables]))))

\* table.put(LuaNumber(counter), val) for counter, val in
\* enumerate(vals, start=counter)
PutEnumerated(tables, tid, counter, vals) ==
    LET Step[j \in 0..Len(vals)] ==
            IF j = 0 THEN tables[tid].map
            ELSE DictSet(Step[j - 1], LuaInt(counter + j - 1), vals[j])
    IN [tables EXCEPT ![tid].map = Step[Len(vals)]]

\* a TableConstructor that treats a last positional field as the others
FieldsBeforeLastMutant(fields) == fields

\* the fields of a TableConstructor before a last positional field
FieldsBeforeLast(fields) ==
    IF fields # <<>> /\ fields[Len(fields)].node = "FieldCounterKey"
    THEN SubSeq(fields, 1, Len(fields) - 1)
    ELSE fields

\* TableConstructor.evaluate; the new table is the next of st.tables
TableConstructorEvaluate(e, sid, st) ==
    With(TableConstructorFields(FieldsBeforeLast(e.fields), 1, 1,
                                Len(st.tables) + 1, sid,
                                [st EXCEPT !.tables = Append(@, NewTable)]),
         LAMBDA head :
            IF Raised(head.st) THEN RM(head.st, <<>>)
            ELSE IF FieldsBeforeLast(e.fields) = e.fields
            THEN RS(head.st, LuaTableRef(Len(st.tables) + 1))
            ELSE With(Evaluate(e.fields[Len(e.fields)].value, sid, head.st),
                      LAMBDA lv :
                        IF Raised(lv.st) THEN lv
                        ELSE RS([lv.st EXCEPT !.tables =
                                    PutEnumerated(@, Len(st.tables) + 1,
                                                  head.counter, lv.vals)],
                                LuaTableRef(Len(st.tables) + 1))))

\* a FuncBody whose function captures the root Scope instead of the Scope
\* of its definition
FuncBodyEvaluateMutant(e, sid, st) ==
    RS([st EXCEPT !.funcs = Append(@, [param_names |-> e.params,
                                       variadic |-> e.vararg,
                                       block |-> e.body,
                                       parent_scope |-> RootScope,
                                       name |-> None])],
       LuaFunctionRef(Len(st.funcs) + 1))

\* FuncBody.evaluate: a new LuaFunction that captures the Scope
FuncBodyEvaluate(e, sid, st) ==
    RS([st EXCEPT !.funcs = Append(@, [param_names |-> e.params,
                                       variadic |-> e.vararg,
                                       block |-> e.body,
                                       parent_scope |-> sid,
                                       name |-> None])],
       LuaFunctionRef(Len(st.funcs) + 1))

\* args = [arg.evaluate(scope) for arg in self.args]
\* return function.call(args, scope)
CallWithArgs(fid, exprs, sid, st) ==
    With(EvaluateList(exprs, 1, sid, st, <<>>), LAMBDA args :
        IF Raised(args.st) THEN RM(args.st, <<>>)
        ELSE LuaFunctionCall(fid, args.items, sid, args.st))

\* FuncCallRegular.evaluate
FuncCallRegularEvaluate(e, sid, st) ==
    With(Evaluate(e.name, sid, st), LAMBDA function :
        IF Raised(function.st) THEN function
        ELSE IF function.multi \/ function.vals[1].t # "func"
        THEN RM(Raise(function.st, AssertionError), <<>>)
        ELSE CallWithArgs(function.vals[1].v, e.args, sid, function.st))

\* FuncCallMethod.evaluate: the arguments are those of self.args
FuncCallMethodEvaluate(e, sid, st) ==
    With(Evaluate(e.object, sid, st), LAMBDA v :
        IF Raised(v.st) THEN v
        ELSE IF v.multi \/ v.vals[1].t # "table"
        THEN RM(Raise(v.st, AssertionError), <<>>)
        ELSE With(LuaTableGet(v.st.tables, v.vals[1].v, LuaString(e.method)),
                  LAMBDA function :
                    IF function.t # "func"
                    THEN RM(Raise(v.st, AssertionError), <<>>)
                    ELSE CallWithArgs(function.v, e.args, sid, v.st)))

\* a BinaryOperation that evaluates both operands before it looks at the
\* first
BinaryOperationEvaluateMutant(e, sid, st) ==
    With(EvaluateSingle(e.lhs, sid, st), LAMBDA l :
        IF Raised(l.st) THEN l
        ELSE With(EvaluateSingle(e.rhs, sid, l.st), LAMBDA r :
                IF Raised(r.st) THEN r
                ELSE IF e.op = "and"
                THEN IF l.vals[1] = LuaNil \/ RelEq(l.vals[1], LuaBool(FALSE))
                     THEN RS(r.st, l.vals[1]) ELSE r
                ELSE IF e.op = "or"
                THEN IF l.vals[1] # LuaNil /\ ~RelEq(l.vals[1], LuaBool(FALSE))
                     THEN RS(r.st, l.vals[1]) ELSE r
                ELSE With(BinaryOperatorFunction(e.op, l.vals[1], r.vals[1]),
                          LAMBDA v :
                            IF v.exc # NoExc
                            THEN RM(Raise(r.st, v.exc), <<>>)
                            ELSE RS(r.st, v.v))))

\* BinaryOperation.evaluate
BinaryOperationEvaluate(e, sid, st) ==
    With(EvaluateSingle(e.lhs, sid, st), LAMBDA l :
        IF Raised(l.st) THEN l
        ELSE IF e.op = "and"
        THEN IF l.vals[1] = LuaNil \/ RelEq(l.vals[1], LuaBool(FALSE))
             THEN l
             ELSE EvaluateSingle(e.rhs, sid, l.st)
        ELSE IF e.op = "or"
        THEN IF l.vals[1] # LuaNil /\ ~RelEq(l.vals[1], LuaBool(FALSE))
             THEN l
             ELSE EvaluateSingle(e.rhs, sid, l.st)
        ELSE With(EvaluateSingle(e.rhs, sid, l.st), LAMBDA r :
                IF Raised(r.st) THEN r
                ELSE With(BinaryOperatorFunction(e.op, l.vals[1], r.vals[1]),
                          LAMBDA v :
                            IF v.exc # NoExc
                            THEN RM(Raise(r.st, v.exc), <<>>)
                            ELSE RS(r.st, v.v))))

\* NumeralDec.evaluate: digits is int(digits.text); a numeral with
\* fract_digits is the float digits.fract_digits, of which the model has
\* the fractions .0 and .5
NumeralDecEvaluate(e, st) ==
    IF e.fract_digits # None
    THEN RS(st, LuaFloat(2 * e.digits
                           + (IF e.fract_digits.text = "5" THEN 1 ELSE 0)))
    ELSE IF e.digits > MAX_INT64 THEN RS(st, LuaFloat(2 * e.digits))
    ELSE RS(st, LuaInt(e.digits))

\* NumeralHex.evaluate of an integer numeral: digits is
\* int(digits.text, 16), wrapped by int_wrap_overflow
NumeralHexEvaluate(e, st) == RS(st, LuaInt(IntWrap(e.digits)))

\* operations.arith_unary_minus; the result is [exc, v]
ArithUnaryMinus(a) ==
    IF ~IsNumber(a) THEN [exc |-> LuaError("TypeError"), v |-> LuaNil]
    ELSE IF IsNaN(a) THEN [exc |-> NoExc, v |-> LuaNaN]
    ELSE IF a.t = "int" THEN [exc |-> NoExc, v |-> LuaInt(IntWrap(-a.v))]
    ELSE [exc |-> NoExc, v |-> LuaFloat(-a.v)]

\* UnaryOperation.evaluate of the operator -
UnaryOperationEvaluate(e, sid, st) ==
    With(EvaluateSingle(e.exp, sid, st), LAMBDA r :
        IF Raised(r.st) THEN r
        ELSE With(ArithUnaryMinus(r.vals[1]), LAMBDA v :
                IF v.exc # NoExc THEN RM(Raise(r.st, v.exc), <<>>)
                ELSE RS(r.st, v.v)))

\* Expression.evaluate, by the class of the node
Evaluate(e, sid, st) ==
    CASE e.node = "NumeralDec" -> NumeralDecEvaluate(e, st)
      [] e.node = "NumeralHex" -> NumeralHexEvaluate(e, st)
      [] e.node = "LiteralNil" -> RS(st, LuaNil)
      [] e.node = "LiteralTrue" -> RS(st, LuaBool(TRUE))
      [] e.node = "LiteralFalse" -> RS(st, LuaBool(FALSE))
      [] e.node = "ParsedLiteralLuaStringExpr" -> RS(st, e.value)
      [] e.node = "VarName" -> RS(st, ScopeGet(st, sid, LuaString(e.name)))
      [] e.node = "VarIndex" -> VarIndexEvaluate(e, sid, st)
      [] e.node = "TableConstructor" -> TableConstructorEvaluate(e, sid, st)
      [] e.node = "FuncDef" -> FuncBodyEvaluate(e.body, sid, st)
      [] e.node = "FuncBody" -> FuncBodyEvaluate(e, sid, st)
      [] e.node = "FuncCallRegular" -> FuncCallRegularEvaluate(e, sid, st)
      [] e.node = "FuncCallMethod" -> FuncCallMethodEvaluate(e, sid, st)
      [] e.node = "BinaryOperation" -> BinaryOperationEvaluate(e, sid, st)
      [] e.node = "UnaryOperation" -> UnaryOperationEvaluate(e, sid, st)
      [] e.node = "ParenExpression" -> EvaluateSingle(e.exp, sid, st)
      [] e.node = "Block" ->
            EvaluateWithoutInnerScope(e, NewScopeId(st), ScopePush(st, sid))

\* table.put(variable.index.evaluate(scope), value) of Assignment.execute;
\* the result is the state
AssignIndex(variable, value, sid, st) ==
    With(Evaluate(variable.base, sid, st), LAMBDA table :
        IF Raised(table.st) THEN table.st
        ELSE IF table.multi \/ table.vals[1].t # "table"
        THEN Raise(table.st, AssertionError)
        ELSE With(Evaluate(variable.index, sid, table.st), LAMBDA index :
                IF Raised(index.st) THEN index.st
                ELSE IF index.multi THEN Raise(index.st, [t |-> "TypeError"])
                ELSE With(LuaTablePut(index.st.tables, table.vals[1].v,
                                      index.vals[1], value), LAMBDA put :
                        IF put.exc # NoExc THEN Raise(index.st, put.exc)
                        ELSE [index.st EXCEPT !.tables = put.tables])))

\* an Assignment that binds a plain name in the current Scope
AssignTargetMutant(variable, value, sid, st) ==
    IF variable.node = "VarName"
    THEN ScopePutLocal(st, sid, LuaString(variable.name), Variable(value))
    ELSE IF variable.node = "VarIndex"
    THEN AssignIndex(variable, value, sid, st)
    ELSE Raise(st, NotImplementedError)

\* one target of Assignment.execute; the result is the state
AssignTarget(variable, value, sid, st) ==
    IF variable.node = "VarName"
    THEN ScopePutNonlocal(st, sid, LuaString(variable.name), value)
    ELSE IF variable.node = "VarIndex"
    THEN AssignIndex(variable, value, sid, st)
    ELSE Raise(st, NotImplementedError)

\* the targets of Assignment.execute, from the i-th on
AssignmentTargets(s, values, i, sid, st) ==
    IF i > Len(s.names) THEN st
    ELSE With(AssignTarget(s.names[i], values[i], sid, st), LAMBDA put :
            IF Raised(put) THEN put
            ELSE AssignmentTargets(s, values, i + 1, sid, put))

\* an Assignment that writes its first target before it evaluates the
\* expressions of the others
AssignmentExecuteMutant(s, sid, st) ==
    IF Len(s.names) > 1 /\ Len(s.exprs) > 1
    THEN With(EvaluateSingle(s.exprs[1], sid, st), LAMBDA e :
            IF Raised(e.st) THEN XR(e.st, <<>>)
            ELSE With(AssignTarget(s.names[1], e.vals[1], sid, e.st),
                      LAMBDA put :
                        IF Raised(put) THEN XR(put, <<>>)
                        ELSE Execute([s EXCEPT !.names = Tail(@),
                                               !.exprs = Tail(@)],
                                     sid, put)))
    ELSE With(EvaluateList(s.exprs, 1, sid, st, <<>>), LAMBDA l :
            IF Raised(l.st) THEN XR(l.st, <<>>)
            ELSE With(Adjust(l.items, Len(s.names)), LAMBDA values :
                    With(AssignmentTargets(s, values, 1, sid, l.st),
                         LAMBDA done :
                            IF Raised(done) THEN XR(done, <<>>)
                            ELSE XR(done, values))))

\* Assignment.execute
AssignmentExecute(s, sid, st) ==
    With(EvaluateList(s.exprs, 1, sid, st, <<>>), LAMBDA l :
        IF Raised(l.st) THEN XR(l.st, <<>>)
        ELSE With(Adjust(l.items, Len(s.names)), LAMBDA values :
                With(AssignmentTargets(s, values, 1, sid, l.st), LAMBDA done :
                    IF Raised(done) THEN XR(done, <<>>)
                    ELSE XR(done, values))))

\* a Variable that forgets the const attribute
AttributedVariableMutant(attrib, value) ==
    [Variable(value) EXCEPT !.to_be_closed = (attrib = "close")]

\* the Variable of a name of LocalAssignment.execute
AttributedVariable(attrib, value) ==
    [Variable(value) EXCEPT !.to_be_closed = (attrib = "close"),
                            !.constant = (attrib = "const")]

\* the names of LocalAssignment.execute, from the i-th on
LocalAssignmentTargets(s, exp_vals, i, used_closed, sid, st) ==
    IF i > Len(s.names) THEN st
    ELSE IF s.names[i].attrib \notin {"None", "close", "const"}
    THEN Raise(st, NotImplementedError)
    ELSE IF s.names[i].attrib = "close" /\ used_closed
    THEN Raise(st, NotImplementedError)
    ELSE LocalAssignmentTargets(s, exp_vals, i + 1,
            used_closed \/ s.names[i].attrib = "close", sid,
            ScopePutLocal(st, sid, LuaString(s.names[i].name),
                          AttributedVariable(s.names[i].attrib, exp_vals[i])))

\* a LocalAssignment that binds only the names that get a value
LocalAssignmentExecuteMutant(s, sid, st) ==
    With(EvaluateList(s.exprs, 1, sid, st, <<>>), LAMBDA l :
        IF Raised(l.st) THEN XR(l.st, <<>>)
        ELSE With(AdjustFlatten(l.items), LAMBDA exp_vals :
                With(LocalAssignmentTargets(
                        [s EXCEPT !.names =
                            SubSeq(@, 1, IF Len(exp_vals) < Len(@)
                                         THEN Len(exp_vals) ELSE Len(@))],
                        exp_vals, 1, FALSE, sid, l.st),
                     LAMBDA done :
                        IF Raised(done) THEN XR(done, <<>>)
                        ELSE XR(done, exp_vals))))

\* LocalAssignment.execute
LocalAssignmentExecute(s, sid, st) ==
    With(EvaluateList(s.exprs, 1, sid, st, <<>>), LAMBDA l :
        IF Raised(l.st) THEN XR(l.st, <<>>)
        ELSE With(IF s.exprs # <<>> THEN Adjust(l.items, Len(s.names))
                  ELSE [i \in 1..Len(s.names) |-> LuaNil], LAMBDA exp_vals :
                With(LocalAssignmentTargets(s, exp_vals, 1, FALSE, sid, l.st),
                     LAMBDA done :
                        IF Raised(done) THEN XR(done, <<>>)
                        ELSE XR(done, exp_vals))))

\* If.execute: the (condition, block) pairs from the i-th on, then the
\* else block
IfBlocks(s, i, sid, st) ==
    IF i > Len(s.blocks)
    THEN IF s.else_block # None THEN Execute(s.else_block, sid, st).st
         ELSE st
    ELSE With(Evaluate(s.blocks[i][1], sid, st), LAMBDA cnd :
            IF Raised(cnd.st) THEN cnd.st
            ELSE IF CoerceToBool(Item(cnd))
            THEN Execute(s.blocks[i][2], sid, cnd.st).st
            ELSE IfBlocks(s, i + 1, sid, cnd.st))

\* a loop without the except clause: the BreakException goes on
CatchBreakMutant(st) == st

\* an except BreakException: pass clause around the steps that gave st
CatchBreak(st) == IF st.exc = BreakException THEN Raise(st, NoExc) ELSE st

\* the while loop of While.execute
WhileLoop(s, new_vm, sid, st) ==
    With(Evaluate(s.condition, sid, st), LAMBDA cnd :
        IF Raised(cnd.st) THEN cnd.st
        ELSE IF ~CoerceToBool(Item(cnd)) THEN cnd.st
        ELSE With(ExecuteWithoutInnerScope(s.block, new_vm, cnd.st),
                  LAMBDA b :
                    IF Raised(b.st) THEN b.st
                    ELSE WhileLoop(s, new_vm, sid, b.st)))

\* While.execute
WhileExecute(s, sid, st) ==
    XR(CatchBreak(WhileLoop(s, NewScopeId(st), sid, ScopePush(st, sid))),
       <<>>)

\* the while True loop of Repeat.execute
RepeatLoop(s, new_vm, st) ==
    With(ExecuteWithoutInnerScope(s.block, new_vm, st), LAMBDA b :
        IF Raised(b.st) THEN b.st
        ELSE With(Evaluate(s.condition, new_vm, b.st), LAMBDA cnd :
                IF Raised(cnd.st) THEN cnd.st
                ELSE IF CoerceToBool(Item(cnd)) THEN cnd.st
                ELSE RepeatLoop(s, new_vm, cnd.st)))

\* Repeat.execute
RepeatExecute(s, sid, st) ==
    XR(CatchBreak(RepeatLoop(s, NewScopeId(st), ScopePush(st, sid))), <<>>)

\* adjust_to_one(e.evaluate(scope)); assert isinstance(v, LuaNumber)
EvaluateNumber(e, sid, st) ==
    With(EvaluateSingle(e, sid, st), LAMBDA r :
        IF Raised(r.st) THEN r
        ELSE IF ~IsNumber(r.vals[1])
        THEN RM(Raise(r.st, AssertionError), <<>>)
        ELSE r)

\* a loop that ends before the iteration whose next value overflows
ForLoopMutant(s, c, inner_scope, st) ==
    IF ~(IF c.is_step_negative THEN RelLe(c.limit, c.control_val)
         ELSE RelLe(c.control_val, c.limit)).v.v
    THEN st
    ELSE IF OverflowArithAdd(c.control_val, c.step).overflow
              /\ c.is_integer_loop
    THEN st
    ELSE With(ExecuteWithoutInnerScope(
                  s.block, inner_scope,
                  ScopePutLocal(st, inner_scope, LuaString(s.name),
                                Variable(c.control_val))),
              LAMBDA b :
                IF Raised(b.st) THEN b.st
                ELSE ForLoop(s, [c EXCEPT !.control_val =
                                    OverflowArithAdd(c.control_val,
                                                     c.step).v],
                             inner_scope, b.st))

\* a loop that evaluates its limit again before every iteration
ForLoopRereadMutant(s, c, inner_scope, st) ==
    With(EvaluateNumber(s.stop, inner_scope, st), LAMBDA l :
        IF Raised(l.st) THEN l.st
        ELSE IF ~(IF c.is_step_negative
                  THEN RelLe(l.vals[1], c.control_val)
                  ELSE RelLe(c.control_val, l.vals[1])).v.v
        THEN l.st
        ELSE With(ExecuteWithoutInnerScope(
                      s.block, inner_scope,
                      ScopePutLocal(l.st, inner_scope, LuaString(s.name),
                                    Variable(c.control_val))),
                  LAMBDA b :
                    IF Raised(b.st) THEN b.st
                    ELSE With(OverflowArithAdd(c.control_val, c.step),
                              LAMBDA sum :
                                IF sum.overflow /\ c.is_integer_loop
                                THEN b.st
                                ELSE ForLoop(s, [c EXCEPT !.control_val =
                                                    sum.v],
                                             inner_scope, b.st))))

\* the while loop of For._execute; c holds the control value, the limit,
\* the step and the flags fixed before the loop
ForLoop(s, c, inner_scope, st) ==
    IF ~(IF c.is_step_negative THEN RelLe(c.limit, c.control_val)
         ELSE RelLe(c.control_val, c.limit)).v.v
    THEN st
    ELSE With(ExecuteWithoutInnerScope(
                  s.block, inner_scope,
                  ScopePutLocal(st, inner_scope, LuaString(s.name),
                                Variable(c.control_val))),
              LAMBDA b :
                IF Raised(b.st) THEN b.st
                ELSE With(OverflowArithAdd(c.control_val, c.step),
                          LAMBDA sum :
                            IF sum.overflow /\ c.is_integer_loop THEN b.st
                            ELSE ForLoop(s, [c EXCEPT !.control_val = sum.v],
                                         inner_scope, b.st)))

\* the values fixed before the loop of For._execute, and the loop:
\* inner_scope is pushed once, before the first iteration
ForPrepared(s, start, stop, step, sid, st) ==
    With(start.t = "int" /\ step.t = "int", LAMBDA is_integer_loop :
        With(IF is_integer_loop THEN step ELSE CoerceIntToFloat(step),
             LAMBDA stp :
                IF ~IsNaN(stp) /\ stp.v = 0
                THEN Raise(st, NotImplementedError)
                ELSE ForLoop(s,
                        [control_val |-> IF is_integer_loop THEN start
                                         ELSE CoerceIntToFloat(start),
                         limit |-> IF is_integer_loop THEN stop
                                   ELSE CoerceIntToFloat(stop),
                         step |-> stp,
                         is_integer_loop |-> is_integer_loop,
                         is_step_negative |-> ~IsNaN(stp) /\ stp.v < 0],
                        NewScopeId(st), ScopePush(st, sid))))

\* the step of For._execute: self.step or the integer 1
ForStep(s, sid, st) ==
    IF s.step # None THEN EvaluateNumber(s.step, sid, st)
    ELSE RS(st, LuaInt(1))

\* For._execute
ForExecuteInner(s, sid, st) ==
    With(EvaluateNumber(s.start, sid, st), LAMBDA a :
        IF Raised(a.st) THEN a.st
        ELSE With(EvaluateNumber(s.stop, sid, a.st), LAMBDA b :
                IF Raised(b.st) THEN b.st
                ELSE With(ForStep(s, sid, b.st), LAMBDA d :
                        IF Raised(d.st) THEN d.st
                        ELSE ForPrepared(s, a.vals[1], b.vals[1], d.vals[1],
                                         sid, d.st))))

\* For.execute
ForExecute(s, sid, st) == XR(CatchBreak(ForExecuteInner(s, sid, st)), <<>>)

\* the Scope sid with the names bound to the values, in order
PutLocals(st, sid, names, values) ==
    LET Step[j \in 0..Len(names)] ==
            IF j = 0 THEN st.scopes[sid].vars
            ELSE DictSet(Step[j - 1], LuaString(names[j]),
                         Variable(values[j]))
    IN [st EXCEPT !.scopes[sid].vars = Step[Len(names)]]

\* a loop that tests the first result after the body instead of before it
ForInLoopMutant(s, c, body_scope, st) ==
    With(LuaFunctionCall(c.iterator_function.v,
                         <<Single(c.state),
                           Single(ScopeGet(st, body_scope,
                                           LuaString(s.names[1])))>>,
                         c.outer_scope, st),
         LAMBDA call :
            IF Raised(call.st) THEN call.st
            ELSE With(Adjust([i \in 1..Len(call.vals) |->
                                 Single(call.vals[i])], Len(s.names)),
                      LAMBDA results :
                With(ExecuteWithoutInnerScope(s.block, body_scope,
                        PutLocals(call.st, body_scope, s.names, results)),
                     LAMBDA b :
                        IF Raised(b.st) \/ results[1] = LuaNil THEN b.st
                        ELSE ForInLoop(s, c, body_scope, b.st))))

\* the while True loop of ForIn._execute; c holds the iterator function,
\* the state and the closing value fixed before the loop
ForInLoop(s, c, body_scope, st) ==
    With(LuaFunctionCall(c.iterator_function.v,
                         <<Single(c.state),
                           Single(ScopeGet(st, body_scope,
                                           LuaString(s.names[1])))>>,
                         c.outer_scope, st),
         LAMBDA call :
            IF Raised(call.st) THEN call.st
            ELSE With(Adjust([i \in 1..Len(call.vals) |->
                                 Single(call.vals[i])], Len(s.names)),
                      LAMBDA results :
                With(PutLocals(call.st, body_scope, s.names, results),
                     LAMBDA bound :
                        IF results[1] = LuaNil
                        THEN IF c.closing_value # LuaNil
                             THEN Raise(bound, NotImplementedError)
                             ELSE bound
                        ELSE With(ExecuteWithoutInnerScope(s.block,
                                      body_scope, bound),
                                  LAMBDA b :
                                    IF Raised(b.st) THEN b.st
                                    ELSE ForInLoop(s, c, body_scope,
                                                   b.st)))))

\* ForIn._execute: body_scope is pushed once, before the first iteration
ForInExecuteInner(s, outer_scope, st) ==
    With(EvaluateList(s.exprs, 1, outer_scope,
                      PutLocals(ScopePush(st, outer_scope), NewScopeId(st),
                                s.names, [j \in 1..Len(s.names) |-> LuaNil]),
                      <<>>),
         LAMBDA l :
            IF Raised(l.st) THEN l.st
            ELSE With(Adjust(l.items, 4), LAMBDA exp_vals :
                    IF exp_vals[1].t # "func"
                    THEN Raise(l.st, NotImplementedError)
                    ELSE ForInLoop(s,
                            [iterator_function |-> exp_vals[1],
                             state |-> exp_vals[2],
                             closing_value |-> exp_vals[4],
                             outer_scope |-> outer_scope],
                            NewScopeId(st),
                            ScopePutLocal(l.st, NewScopeId(st),
                                          LuaString(s.names[1]),
                                          Variable(exp_vals[3])))))

\* ForIn.execute
ForInExecute(s, sid, st) ==
    XR(CatchBreak(ForInExecuteInner(s, sid, st)), <<>>)

\* for name in self.name.names[1:-1]: table = table.get(name), from the
\* i-th name on; the result is [st, vals] with the table reached
FunctionStatementTable(names, i, table, st) ==
    IF table.t # "table" THEN RM(Raise(st, [t |-> "AttributeError"]), <<>>)
    ELSE IF i > Len(names) - 1 THEN RS(st, table)
    ELSE With(LuaTableGet(st.tables, table.v, LuaString(names[i])),
              LAMBDA next :
                IF next.t # "table" THEN RM(Raise(st, AssertionError), <<>>)
                ELSE FunctionStatementTable(names, i + 1, next, st))

\* the new function of FunctionStatement.execute, that is the last of
\* st.funcs: self becomes its first parameter when the name is a method
\* name, and it gets its name
NameFunction(s, st) ==
    [st EXCEPT
        !.funcs[Len(st.funcs)].param_names =
            IF s.name.method THEN <<"self">> \o @ ELSE @,
        !.funcs[Len(st.funcs)].name =
            LuaString(s.name.names[Len(s.name.names)])]

\* FunctionStatement.execute
FunctionStatementExecute(s, sid, st) ==
    With(FuncBodyEvaluate(s.body, sid, st), LAMBDA new :
        With(NameFunction(s, new.st), LAMBDA st1 :
            IF Len(s.name.names) = 1
            THEN With(ScopePutNonlocal(st1, sid, LuaString(s.name.names[1]),
                                       new.vals[1]),
                      LAMBDA put :
                        IF Raised(put) THEN XR(put, <<>>)
                        ELSE XR(put, new.vals))
            ELSE With(FunctionStatementTable(
                          s.name.names, 2,
                          ScopeGet(st1, sid, LuaString(s.name.names[1])),
                          st1),
                      LAMBDA table :
                        IF Raised(table.st) THEN XR(table.st, <<>>)
                        ELSE XR([table.st EXCEPT !.tables =
                                    LuaTablePut(@, table.vals[1].v,
                                        LuaString(s.name.names[
                                            Len(s.name.names)]),
                                        new.vals[1]).tables],
                                new.vals))))

\* LocalFunctionStatement.execute
LocalFunctionStatementExecute(s, sid, st) ==
    With(FuncBodyEvaluate(s.body, sid,
                          ScopePutLocal(st, sid, LuaString(s.name),
                                        Variable(LuaNil))),
         LAMBDA new :
            XR(ScopePutLocal([new.st EXCEPT
                                 !.funcs[new.vals[1].v].name =
                                     LuaString(s.name)],
                             sid, LuaString(s.name), Variable(new.vals[1])),
               new.vals))

\* FuncCallRegular.execute
FuncCallRegularExecute(s, sid, st) ==
    With(FuncCallRegularEvaluate(s, sid, st), LAMBDA r : XR(r.st, r.vals))

\* FuncCallMethod.execute: the result of evaluate is dropped
FuncCallMethodExecute(s, sid, st) ==
    XR(FuncCallMethodEvaluate(s, sid, st).st, <<>>)

\* Statement.execute, by the class of the node
Execute(s, sid, st) ==
    CASE s.node = "Block" ->
            ExecuteWithoutInnerScope(s, NewScopeId(st), ScopePush(st, sid))
      [] s.node = "EmptyStatement" -> XR(st, <<>>)
      [] s.node = "Assignment" -> AssignmentExecute(s, sid, st)
      [] s.node = "LocalAssignment" -> LocalAssignmentExecute(s, sid, st)
      [] s.node = "Label" -> XR(Raise(st, NotImplementedError), <<>>)
      [] s.node = "Break" -> XR(Raise(st, BreakException), <<>>)
      [] s.node = "Goto" -> XR(Raise(st, GotoException(s.name)), <<>>)
      [] s.node = "Do" -> XR(Execute(s.block, sid, st).st, <<>>)
      [] s.node = "While" -> WhileExecute(s, sid, st)
      [] s.node = "Repeat" -> RepeatExecute(s, sid, st)
      [] s.node = "If" -> XR(IfBlocks(s, 1, sid, st), <<>>)
      [] s.node = "For" -> ForExecute(s, sid, st)
      [] s.node = "ForIn" -> ForInExecute(s, sid, st)
      [] s.node = "FunctionStatement" -> FunctionStatementExecute(s, sid, st)
      [] s.node = "LocalFunctionStatement" ->
            LocalFunctionStatementExecute(s, sid, st)
      [] s.node = "FuncCallRegular" -> FuncCallRegularExecute(s, sid, st)
      [] s.node = "FuncCallMethod" -> FuncCallMethodExecute(s, sid, st)

\* Scope.exec of the root Scope, as VirtualMachine.exec calls it, on the
\* parsed chunk: the block runs in the root Scope itself
VMExec(chunk, st) == EvaluateWithoutInnerScope(chunk.block, RootScope, st)

(***************************************************************************)
(* The nodes the parser builds, by class of ast_nodes.py.                  *)
(***************************************************************************)
Num(n) == [node |-> "NumeralDec", digits |-> n, fract_digits |-> None]
Terminal(text) == [text |-> text]
Fract(n, f) ==
    [node |-> "NumeralDec", digits |-> n, fract_digits |-> Terminal(f)]
Neg(exp) == [node |-> "UnaryOperation", op |-> "-", exp |-> exp]
Hex(n) == [node |-> "NumeralHex", digits |-> n]
Nil == [node |-> "LiteralNil"]
True == [node |-> "LiteralTrue"]
False == [node |-> "LiteralFalse"]
Str(s) == [node |-> "ParsedLiteralLuaStringExpr", value |-> LuaString(s)]
Var(name) == [node |-> "VarName", name |-> name]
Index(base, index) == [node |-> "VarIndex", base |-> base, index |-> index]
Paren(exp) == [node |-> "ParenExpression", exp |-> exp]
BinOp(lhs, op, rhs) ==
    [node |-> "BinaryOperation", lhs |-> lhs, op |-> op, rhs |-> rhs]
Call(name, args) == [node |-> "FuncCallRegular", name |-> name, args |-> args]
MethodCall(object, method, args) ==
    [node |-> "FuncCallMethod", object |-> object, method |-> method,
     args |-> args]
Positional(value) == [node |-> "FieldCounterKey", value |-> value]
Table(fields) == [node |-> "TableConstructor", fields |-> fields]
Return(values) == [node |-> "ReturnStatement", values |-> values]
Block(statements) ==
    [node |-> "Block", statements |-> statements, return_statement |-> None]
BlockReturn(statements, values) ==
    [node |-> "Block", statements |-> statements,
     return_statement |-> Return(values)]
FuncBody(params, body) ==
    [node |-> "FuncBody", params |-> params, body |-> body, vararg |-> FALSE]
FuncDef(params, body) == [node |-> "FuncDef", body |-> FuncBody(params, body)]
Assignment(names, exprs) ==
    [node |-> "Assignment", names |-> names, exprs |-> exprs]
AttributeName(name) == [name |-> name, attrib |-> "None"]
LocalAssignment(names, exprs) ==
    [node |-> "LocalAssignment",
     names |-> [i \in 1..Len(names) |-> AttributeName(names[i])],
     exprs |-> exprs]
Label(name) == [node |-> "Label", name |-> name]
Break == [node |-> "Break"]
Goto(name) == [node |-> "Goto", name |-> name]
Do(block) == [node |-> "Do", block |-> block]
While(condition, block) ==
    [node |-> "While", condition |-> condition, block |-> block]
Repeat(block, condition) ==
    [node |-> "Repeat", block |-> block, condition |-> condition]
If(condition, block) ==
    [node |-> "If", blocks |-> <<<<condition, block>>>>, else_block |-> None]
IfElse(condition, block, else_block) ==
    [node |-> "If", blocks |-> <<<<condition, block>>>>,
     else_block |-> else_block]
For(name, start, stop, block) ==
    [node |-> "For", name |-> name, start |-> start, stop |-> stop,
     step |-> None, block |-> block]
ForBy(name, start, stop, step, block) ==
    [node |-> "For", name |-> name, start |-> start, stop |-> stop,
     step |-> step, block |-> block]
ForIn(names, exprs, block) ==
    [node |-> "ForIn", names |-> names, exprs |-> exprs, block |-> block]
FunctionStatement(names, method, params, body) ==
    [node |-> "FunctionStatement",
     name |-> [names |-> names, method |-> method],
     body |-> FuncBody(params, body)]
Chunk(block) == [node |-> "Chunk", block |-> block]

(***************************************************************************)
(* The table machine: LuaTable objects driven through put, get, has and    *)
(* the metamethod lookups, as a host program holding the objects does.     *)
(***************************************************************************)
\* the table under test and the table that becomes its metatable
TableT == 2
TableMT == 3

\* the keys put into and looked up in the table under test: nil, 1, 1.0,
\* 1.5, 2, 2.0 and NaN
TableKeys ==
    {LuaNil, LuaInt(1), LuaFloat(2), LuaFloat(3), LuaInt(2), LuaFloat(4),
     LuaNaN}

\* the metamethod name put into the metatable
MetaKey == LuaString("__index")

TableValues == {LuaNil, LuaInt(7), LuaInt(8)}

\* VirtualMachine(): the global table is table 1, the root scope is scope 1
NewVM ==
    [scopes |-> <<[parent |-> 0, vars |-> <<>>]>>,
     tables |-> <<NewTable>>,
     funcs |-> <<>>,
     exc |-> NoExc]

NoOp == [op |-> "none"]

TableInit ==
    /\ vm = [NewVM EXCEPT !.tables = <<NewTable, NewTable, NewTable>>]
    /\ last = NoOp
    /\ nexec = 0

\* t.put(key, value)
TPut(id, key, value) ==
    /\ nexec < MaxTableOps
    /\ \/ DictFind(vm.tables[id].map, key) # 0
       \/ Len(vm.tables[id].map) < MaxMapLen
    /\ LET r == LuaTablePut(vm.tables, id, key, value)
       IN /\ vm' = [vm EXCEPT !.tables = r.tables]
          /\ last' = [op |-> "put", id |-> id, key |-> key, value |-> value,
                      existed |-> LuaTableHas(vm.tables, id, key),
                      before |-> vm.tables[id], exc |-> r.exc]
    /\ nexec' = nexec + 1

\* t.get(key)
TGet(id, key) ==
    /\ nexec < MaxTableOps
    /\ last' = [op |-> "get", id |-> id, key |-> key,
                res |-> LuaTableGet(vm.tables, id, key)]
    /\ nexec' = nexec + 1
    /\ UNCHANGED vm

\* t.has(key)
THas(id, key) ==
    /\ nexec < MaxTableOps
    /\ last' = [op |-> "has", id |-> id, key |-> key,
                res |-> LuaTableHas(vm.tables, id, key)]
    /\ nexec' = nexec + 1
    /\ UNCHANGED vm

\* t.set_metatable(mt)
TSetMetatable ==
    /\ nexec < MaxTableOps
    /\ vm.tables[TableT].meta = 0
    /\ vm' = [vm EXCEPT !.tables[TableT].meta = TableMT]
    /\ last' = [op |-> "set_metatable"]
    /\ nexec' = nexec + 1

\* t.has_metamethod(name)
THasMetamethod(name) ==
    /\ nexec < MaxTableOps
    /\ last' = [op |-> "has_metamethod", key |-> name,
                res |-> HasMetamethod(vm.tables, TableT, name)]
    /\ nexec' = nexec + 1
    /\ UNCHANGED vm

\* t.get_metamethod(name)
TGetMetamethod(name) ==
    /\ nexec < MaxTableOps
    /\ last' = [op |-> "get_metamethod", key |-> name,
                res |-> GetMetamethod(vm.tables, TableT, name)]
    /\ nexec' = nexec + 1
    /\ UNCHANGED vm

TableNext ==
    \/ \E key \in TableKeys, value \in TableValues :
            TPut(TableT, key, value)
    \/ \E value \in TableValues : TPut(TableMT, MetaKey, value)
    \/ \E key \in TableKeys : TGet(TableT, key)
    \/ \E key \in TableKeys : THas(TableT, key)
    \/ TSetMetatable
    \/ THasMetamethod(MetaKey)
    \/ TGetMetamethod(MetaKey)

SpecTable == TableInit /\ [][TableNext]_vars

(***************************************************************************)
(* Properties of the table machine.                                        *)
(***************************************************************************)
\* the entries of the table id whose key is a number of the value h / 2
NumberSlots(id, h) ==
    {j \in 1..Len(vm.tables[id].map) :
        /\ IsNumber(vm.tables[id].map[j].k)
        /\ ~IsNaN(vm.tables[id].map[j].k)
        /\ Halves(vm.tables[id].map[j].k) = h}

\* C8: an integer n and the float f of the same mathematical value address
\* one slot of a LuaTable: get and has answer the same through either key,
\* a put through either key is read back through both, and the table never
\* holds two entries for n and f.
C8_IntFloatOneSlot ==
    /\ \A n \in {1, 2} :
          /\ LuaTableGet(vm.tables, TableT, LuaInt(n))
                = LuaTableGet(vm.tables, TableT, LuaFloat(2 * n))
          /\ LuaTableHas(vm.tables, TableT, LuaInt(n))
                = LuaTableHas(vm.tables, TableT, LuaFloat(2 * n))
          /\ Cardinality(NumberSlots(TableT, 2 * n)) <= 1
    /\ \A n \in {1, 2} :
          (/\ last.op = "put"
           /\ last.exc = NoExc
           /\ last.key \in {LuaInt(n), LuaFloat(2 * n)})
          => /\ LuaTableGet(vm.tables, TableT, LuaInt(n)) = last.value
             /\ LuaTableGet(vm.tables, TableT, LuaFloat(2 * n)) = last.value

\* a put through the float key 1.0 has overwritten the value stored
\* through the integer key 1
C8_Witness ==
    /\ last.op = "put"
    /\ last.key = LuaFloat(2)
    /\ last.value = LuaInt(8)
    /\ last.before.map = <<[k |-> LuaInt(1), v |-> LuaInt(7)]>>
    /\ vm.tables[TableT].map = <<[k |-> LuaInt(1), v |-> LuaInt(8)]>>

\* C9: LuaTable.put rejects a Nil key with a TypeError-class error and a
\* NaN key with a DomainError, leaving the table unchanged, so no table
\* ever holds a Nil key or a NaN key.
C9_PutRejectsInvalidKeys ==
    /\ \A id \in {TableT, TableMT} :
          \A j \in 1..Len(vm.tables[id].map) :
              /\ vm.tables[id].map[j].k # LuaNil
              /\ ~IsNaN(vm.tables[id].map[j].k)
    /\ (last.op = "put" /\ (last.key = LuaNil \/ IsNaN(last.key)))
          => /\ last.exc.t
                  = (IF last.key = LuaNil THEN "TypeError" ELSE "DomainError")
             /\ vm.tables[last.id] = last.before

\* C10: assigning Nil to an existing key removes the association: get
\* returns Nil and has reports the key as absent, and has_metamethod is
\* false for a metamethod name whose entry was set to Nil.
C10_NilAssignmentRemovesKey ==
    /\ (last.op = "put" /\ last.exc = NoExc
          /\ last.value = LuaNil /\ last.existed)
          => /\ LuaTableGet(vm.tables, last.id, last.key) = LuaNil
             /\ ~LuaTableHas(vm.tables, last.id, last.key)
    /\ (last.op = "has_metamethod"
          /\ LuaTableGet(vm.tables, TableMT, MetaKey) = LuaNil)
          => ~last.res

(***************************************************************************)
(* The machines of the evaluator: a VirtualMachine executes chunks.  vm is *)
(* the state the VirtualMachine keeps between two calls of exec, last the  *)
(* chunk executed last with the values and the exception it gave.          *)
(***************************************************************************)
VMInit ==
    /\ vm = NewVM
    /\ last = NoOp
    /\ nexec = 0

\* VirtualMachine.exec(chunk): what the call leaves in the machine, and
\* what it hands to the host (the returned values or the exception)
Exec(chunk, op) ==
    /\ nexec < MaxExecs
    /\ \E r \in {VMExec(chunk, vm)} :
          /\ vm' = Raise(r.st, NoExc)
          /\ last' = [op EXCEPT !.vals = r.vals, !.exc = r.st.exc]
    /\ nexec' = nexec + 1

\* the value of the global name in the machine
Global(name) == LuaTableGet(vm.tables, GlobalsId, LuaString(name))

\* the value at the integer key i of the table held by the global name
GlobalAt(name, i) ==
    IF Global(name).t = "table"
    THEN LuaTableGet(vm.tables, Global(name).v, LuaInt(i))
    ELSE LuaNil

(***************************************************************************)
(* Numeric for loops whose body creates closures over the loop variable.   *)
(***************************************************************************)
\* fns = {} got = {}
\* for i = a, b do
\*   fns[i] = function() return i end
\*   got[i] = fns[a]()
\* end
ForClosuresChunk(a, b) ==
    Chunk(Block(<<
        Assignment(<<Var("fns"), Var("got")>>, <<Table(<<>>), Table(<<>>)>>),
        For("i", Num(a), Num(b), Block(<<
            Assignment(<<Index(Var("fns"), Var("i"))>>,
                       <<FuncDef(<<>>, BlockReturn(<<>>, <<Var("i")>>))>>),
            Assignment(<<Index(Var("got"), Var("i"))>>,
                       <<Call(Index(Var("fns"), Num(a)), <<>>)>>)>>))>>))

\* return fns[k]()
CallClosureChunk(k) ==
    Chunk(BlockReturn(<<>>, <<Call(Index(Var("fns"), Num(k)), <<>>)>>))

ExecForClosures(a, b) ==
    Exec(ForClosuresChunk(a, b),
         [op |-> "for", a |-> a, b |-> b, vals |-> <<>>, exc |-> NoExc])

\* a closure created by iteration k of the last loop is called
ExecCallClosure(k) ==
    /\ GlobalAt("fns", k).t = "func"
    /\ Exec(CallClosureChunk(k),
            [op |-> "call", k |-> k, vals |-> <<>>, exc |-> NoExc])

ForNext ==
    \/ \E a, b \in 1..MaxLoop : ExecForClosures(a, b)
    \/ \E k \in 1..MaxLoop : ExecCallClosure(k)

SpecFor == VMInit /\ [][ForNext]_vars

\* C1: a closure created in iteration k of a numeric for loop returns,
\* whenever it is called (during a later iteration or after the loop), the
\* value the loop variable had in iteration k.
C1_ClosureReturnsItsIteration ==
    /\ (last.op = "call" /\ last.exc = NoExc)
          => last.vals = <<LuaInt(last.k)>>
    /\ (last.op = "for" /\ last.exc = NoExc)
          => \A i \in last.a..last.b : GlobalAt("got", i) = LuaInt(last.a)

(***************************************************************************)
(* Assignments whose expression list is adjusted to the targets.           *)
(***************************************************************************)
\* the values f returns, 10, 20, 30, ... and the expressions that do it
ReturnValues(k) == [j \in 1..k |-> LuaInt(10 * j)]
ReturnExprs(k) == [j \in 1..k |-> Num(10 * j)]

\* function f() return 10, 20, ... end, with k values
DefineFChunk(k) ==
    Chunk(Block(<<FunctionStatement(<<"f">>, FALSE, <<>>,
                                    BlockReturn(<<>>, ReturnExprs(k)))>>))

\* the expression lists assigned: 7 is a literal, f() a call, (f()) a call
\* in parentheses
AssignShapes ==
    {<<"7">>, <<"f()">>, <<"(f())">>, <<"f()", "f()">>, <<"7", "f()">>,
     <<"f()", "7">>}

ShapeExpr(x) ==
    CASE x = "7" -> Num(7)
      [] x = "f()" -> Call(Var("f"), <<>>)
      [] x = "(f())" -> Paren(Call(Var("f"), <<>>))

ShapeExprs(shape) == [i \in 1..Len(shape) |-> ShapeExpr(shape[i])]

LocalNames == <<"a1", "a2", "a3", "a4">>
GlobalNames == <<"g1", "g2", "g3", "g4">>

\* local a1, ..., an = shape
LocalAssignmentChunk(n, shape) ==
    Chunk(Block(<<LocalAssignment(SubSeq(LocalNames, 1, n),
                                  ShapeExprs(shape))>>))

\* g1, ..., gn = shape
AssignmentChunk(n, shape) ==
    Chunk(Block(<<Assignment([i \in 1..n |-> Var(GlobalNames[i])],
                             ShapeExprs(shape))>>))

\* the number of values the function held by the global f returns
FReturns == Len(vm.funcs[Global("f").v].block.return_statement.values)

ExecDefineF(k) ==
    Exec(DefineFChunk(k),
         [op |-> "define", k |-> k, vals |-> <<>>, exc |-> NoExc])

ExecLocalAssignment(n, shape) ==
    /\ Global("f").t = "func"
    /\ Exec(LocalAssignmentChunk(n, shape),
            [op |-> "local", n |-> n, shape |-> shape, k |-> FReturns,
             vals |-> <<>>, exc |-> NoExc])

ExecAssignment(n, shape) ==
    /\ Global("f").t = "func"
    /\ Exec(AssignmentChunk(n, shape),
            [op |-> "assignment", n |-> n, shape |-> shape, k |-> FReturns,
             vals |-> <<>>, exc |-> NoExc])

AdjustNext ==
    \/ \E k \in 0..MaxNames : ExecDefineF(k)
    \/ \E n \in 1..MaxNames, shape \in AssignShapes :
            ExecLocalAssignment(n, shape)
    \/ \E n \in 1..MaxNames, shape \in AssignShapes :
            ExecAssignment(n, shape)

SpecAdjust == VMInit /\ [][AdjustNext]_vars

\* the one value an expression of a shape gives when f returns k values
ShapeFirst(x, k) ==
    IF x = "7" THEN LuaInt(7) ELSE IF k = 0 THEN LuaNil ELSE LuaInt(10)

\* the list the claim describes: one value for every expression but the
\* last, all the values of a last expression that is a call
ShapeFlat(shape, k) ==
    [i \in 1..(Len(shape) - 1) |-> ShapeFirst(shape[i], k)]
        \o (IF shape[Len(shape)] = "f()" THEN ReturnValues(k)
            ELSE <<ShapeFirst(shape[Len(shape)], k)>>)

\* the i-th value bound: truncated, or padded with Nil
ShapeValue(shape, k, i) ==
    IF i <= Len(ShapeFlat(shape, k)) THEN ShapeFlat(shape, k)[i] ELSE LuaNil

\* C2: the expression list of an Assignment or LocalAssignment with n
\* targets gives one value for every expression but the last (its first,
\* or Nil), all the values of a last expression that is a call, and is
\* truncated or padded with Nil to n values, which the targets are bound
\* to in order.
C2_ValueListAdjusted ==
    /\ (last.op = "local" /\ last.exc = NoExc)
          => \A i \in 1..last.n :
                /\ ScopeHas(vm, RootScope, LuaString(LocalNames[i]))
                /\ ScopeGet(vm, RootScope, LuaString(LocalNames[i]))
                      = ShapeValue(last.shape, last.k, i)
    /\ (last.op = "assignment" /\ last.exc = NoExc)
          => \A i \in 1..last.n :
                Global(GlobalNames[i]) = ShapeValue(last.shape, last.k, i)
    /\ last.op \in {"local", "assignment"} => last.exc = NoExc

\* local a1, a2, a3 = f() has bound 10, 20, nil with f returning (10, 20)
C2_Witness ==
    /\ last.op = "local"
    /\ last.shape = <<"f()">>
    /\ last.k = 2
    /\ last.n = 3
    /\ ScopeGet(vm, RootScope, LuaString("a1")) = LuaInt(10)
    /\ ScopeGet(vm, RootScope, LuaString("a2")) = LuaInt(20)
    /\ ScopeHas(vm, RootScope, LuaString("a3"))
    /\ ScopeGet(vm, RootScope, LuaString("a3")) = LuaNil

(***************************************************************************)
(* Statements shared by the chunks below.                                  *)
(***************************************************************************)
\* name = n
Set(name, n) == Assignment(<<Var(name)>>, <<Num(n)>>)
\* name = name + 1
Inc(name) == Assignment(<<Var(name)>>, <<BinOp(Var(name), "+", Num(1))>>)
\* function iter(s, c) return c < s and c + 1 or nil end: the iterator of
\* the values c + 1, ..., s
IterFunction ==
    FunctionStatement(<<"iter">>, FALSE, <<"s", "c">>,
        BlockReturn(<<>>,
            <<BinOp(BinOp(BinOp(Var("c"), "<", Var("s")), "and",
                          BinOp(Var("c"), "+", Num(1))),
                    "or", Nil)>>))

(***************************************************************************)
(* Method definitions and method calls.                                    *)
(***************************************************************************)
ParamNames == <<"x1", "x2", "x3", "x4">>

\* t = {} cnt = 0
\* function getobj() cnt = cnt + 1 return t end
\* function t:m(x1, ..., xnp) return self, x1, ..., xnp end
DefineMethodChunk(np) ==
    Chunk(Block(<<
        Assignment(<<Var("t"), Var("cnt")>>, <<Table(<<>>), Num(0)>>),
        FunctionStatement(<<"getobj">>, FALSE, <<>>,
                          BlockReturn(<<Inc("cnt")>>, <<Var("t")>>)),
        FunctionStatement(<<"t", "m">>, TRUE, SubSeq(ParamNames, 1, np),
            BlockReturn(<<>>,
                <<Var("self")>> \o [i \in 1..np |-> Var(ParamNames[i])]))>>))

\* return t:m(args), or return (getobj()):m(args)
CallMethodChunk(args, form) ==
    Chunk(BlockReturn(<<>>,
        <<MethodCall(IF form = "t" THEN Var("t")
                     ELSE Paren(Call(Var("getobj"), <<>>)),
                     "m", [i \in 1..Len(args) |-> Num(args[i])])>>))

\* the argument lists of the method calls
MethodArgs == {<<>>} \cup {<<x>> : x \in {5, 6, 7}}
                \cup {<<x, y>> : x \in {5, 6, 7}, y \in {5, 6, 7}}

\* the LuaFunction held by t.m
MethodM ==
    vm.funcs[LuaTableGet(vm.tables, Global("t").v, LuaString("m")).v]

ExecDefineMethod(np) ==
    Exec(DefineMethodChunk(np),
         [op |-> "define", np |-> np, vals |-> <<>>, exc |-> NoExc])

ExecCallMethod(args, form) ==
    /\ Global("t").t = "table"
    /\ Exec(CallMethodChunk(args, form),
            [op |-> "method", args |-> args, form |-> form,
             cnt |-> Global("cnt"), vals |-> <<>>, exc |-> NoExc])

MethodNext ==
    \/ \E np \in 0..MaxNames : ExecDefineMethod(np)
    \/ \E args \in MethodArgs, form \in {"t", "getobj"} :
            ExecCallMethod(args, form)

SpecMethod == VMInit /\ [][MethodNext]_vars

\* C3: obj:name(args) evaluates obj once, looks name up on it and calls
\* the function found with (obj, args...): the method gets the receiver
\* as self and the arguments after it.
C3_MethodCallPassesReceiver ==
    last.op = "method"
      => /\ last.exc = NoExc
         /\ last.vals
              = <<Global("t")>>
                  \o [i \in 1..(Len(MethodM.param_names) - 1) |->
                        IF i <= Len(last.args) THEN LuaInt(last.args[i])
                        ELSE LuaNil]
         /\ last.form = "getobj" => Global("cnt") = LuaInt(last.cnt.v + 1)

(***************************************************************************)
(* Function bodies that return from a nested block, or do not return.      *)
(***************************************************************************)
\* the constructs a return statement is nested in
ReturnKinds ==
    {"top", "if", "else", "do", "while", "repeat", "for", "forin", "if-for"}

\* the statements of the body of f before its final return 0; rv are the
\* expressions of the nested return
NestedReturn(kind, rv) ==
    CASE kind = "if" -> <<If(True, BlockReturn(<<Inc("n")>>, rv))>>
      [] kind = "else" ->
            <<IfElse(False, Block(<<>>), BlockReturn(<<Inc("n")>>, rv))>>
      [] kind = "do" -> <<Do(BlockReturn(<<Inc("n")>>, rv))>>
      [] kind = "while" ->
            <<While(BinOp(Var("n"), "<", Num(2)),
                    BlockReturn(<<Inc("n")>>, rv))>>
      [] kind = "repeat" ->
            <<Repeat(BlockReturn(<<Inc("n")>>, rv),
                     BinOp(Var("n"), ">=", Num(2)))>>
      [] kind = "for" ->
            <<For("i", Num(1), Num(2), BlockReturn(<<Inc("n")>>, rv))>>
      [] kind = "forin" ->
            <<ForIn(<<"i">>, <<Var("iter"), Num(2), Num(0)>>,
                    BlockReturn(<<Inc("n")>>, rv))>>
      [] kind = "if-for" ->
            <<For("i", Num(1), Num(2),
                  Block(<<If(True, BlockReturn(<<Inc("n")>>, rv))>>))>>

\* n = 0 after = 0
\* function f() <return rv nested in kind> after = 1 return 0 end
\* return f()
NestedReturnChunk(kind, nv) ==
    Chunk(BlockReturn(<<
        Assignment(<<Var("n"), Var("after")>>, <<Num(0), Num(0)>>),
        IterFunction,
        FunctionStatement(<<"f">>, FALSE, <<>>,
            IF kind = "top" THEN BlockReturn(<<Inc("n")>>, ReturnExprs(nv))
            ELSE BlockReturn(NestedReturn(kind, ReturnExprs(nv))
                                \o <<Set("after", 1)>>,
                             <<Num(0)>>))>>,
        <<Call(Var("f"), <<>>)>>))

\* the statements a body without return ends with
LastKinds ==
    {"empty", "assignment", "assignments", "local", "local-nil",
     "function", "local-function", "call", "call-empty", "if", "do",
     "while"}

LastStatement(kind) ==
    CASE kind = "empty" -> <<>>
      [] kind = "assignment" -> <<Set("x", 5)>>
      [] kind = "assignments" ->
            <<Assignment(<<Var("x"), Var("y")>>, <<Num(5), Num(6)>>)>>
      [] kind = "local" -> <<LocalAssignment(<<"z">>, <<Num(5)>>)>>
      [] kind = "local-nil" -> <<LocalAssignment(<<"z">>, <<>>)>>
      [] kind = "function" ->
            <<FunctionStatement(<<"h">>, FALSE, <<>>, Block(<<>>))>>
      [] kind = "local-function" ->
            <<[node |-> "LocalFunctionStatement", name |-> "h",
               body |-> FuncBody(<<>>, Block(<<>>))]>>
      [] kind = "call" -> <<Call(Var("g"), <<>>)>>
      [] kind = "call-empty" -> <<Call(Var("e"), <<>>)>>
      [] kind = "if" -> <<If(True, Block(<<Set("x", 5)>>))>>
      [] kind = "do" -> <<Do(Block(<<Set("x", 5)>>))>>
      [] kind = "while" ->
            <<Set("x", 0),
              While(BinOp(Var("x"), "<", Num(1)), Block(<<Inc("x")>>))>>

\* function g() return 1, 2 end function e() end
\* function f() <kind> end
\* return f()
FallThroughChunk(kind, pre) ==
    Chunk(BlockReturn(<<
        FunctionStatement(<<"g">>, FALSE, <<>>,
                          BlockReturn(<<>>, <<Num(1), Num(2)>>)),
        FunctionStatement(<<"e">>, FALSE, <<>>, Block(<<>>)),
        FunctionStatement(<<"f">>, FALSE, <<>>,
            Block([i \in 1..pre |-> Set("w", i)] \o LastStatement(kind)))>>,
        <<Call(Var("f"), <<>>)>>))

ExecNestedReturn(kind, nv) ==
    Exec(NestedReturnChunk(kind, nv),
         [op |-> "return", kind |-> kind, nv |-> nv, vals |-> <<>>,
          exc |-> NoExc])

ExecFallThrough(kind, pre) ==
    Exec(FallThroughChunk(kind, pre),
         [op |-> "fall", kind |-> kind, pre |-> pre, vals |-> <<>>,
          exc |-> NoExc])

ReturnNext ==
    \/ \E kind \in ReturnKinds, nv \in 0..2 : ExecNestedReturn(kind, nv)
    \/ \E kind \in LastKinds, pre \in 0..1 : ExecFallThrough(kind, pre)

SpecReturn == VMInit /\ [][ReturnNext]_vars

\* C4: a return executed inside a nested block of a function body stops
\* the body: the block or loop does not go on, no later statement of the
\* body runs, and the values of the return are the result of the call.
C4_NestedReturnEndsCall ==
    last.op = "return"
      => /\ last.exc = NoExc
         /\ last.vals = ReturnValues(last.nv)
         /\ Global("n") = LuaInt(1)
         /\ Global("after") = LuaInt(0)

\* C5: a call of a closure whose body ends without a return gives the
\* empty list, whatever the last statement of the body was.
C5_FallThroughGivesEmptyList ==
    last.op = "fall" => (last.exc = NoExc /\ last.vals = <<>>)

(***************************************************************************)
(* Loops left by break.                                                    *)
(***************************************************************************)
LoopKinds == {"while", "repeat", "for", "forin"}

\* the break statement: alone in the loop body (depth 0), or in the
\* iteration i = b under depth nested blocks
BreakAt(depth, b) ==
    CASE depth = 0 -> Break
      [] depth = 1 -> If(BinOp(Var("i"), "==", Num(b)), Block(<<Break>>))
      [] depth = 2 ->
            If(BinOp(Var("i"), "==", Num(b)), Block(<<Do(Block(<<Break>>))>>))

\* n = n + 1 <break> post = post + 1
BreakBody(depth, b) == <<Inc("n"), BreakAt(depth, b), Inc("post")>>

\* the loop over i = 1, ..., MaxLoop
BreakLoop(kind, depth, b) ==
    CASE kind = "while" ->
            <<Set("i", 0),
              While(BinOp(Var("i"), "<", Num(MaxLoop)),
                    Block(<<Inc("i")>> \o BreakBody(depth, b)))>>
      [] kind = "repeat" ->
            <<Set("i", 0),
              Repeat(Block(<<Inc("i")>> \o BreakBody(depth, b)),
                     BinOp(Var("i"), ">=", Num(MaxLoop)))>>
      [] kind = "for" ->
            <<For("i", Num(1), Num(MaxLoop), Block(BreakBody(depth, b)))>>
      [] kind = "forin" ->
            <<ForIn(<<"i">>, <<Var("iter"), Num(MaxLoop), Num(0)>>,
                    Block(BreakBody(depth, b)))>>

\* n = 0 post = 0 outer = 0 after = 0
\* for j = 1, 2 do <loop> outer = outer + 1 end
\* after = 1
BreakChunk(kind, depth, b) ==
    Chunk(Block(<<
        Assignment(<<Var("n"), Var("post"), Var("outer"), Var("after")>>,
                   <<Num(0), Num(0), Num(0), Num(0)>>),
        IterFunction,
        For("j", Num(1), Num(2),
            Block(BreakLoop(kind, depth, b) \o <<Inc("outer")>>)),
        Set("after", 1)>>))

ExecBreak(kind, depth, b) ==
    Exec(BreakChunk(kind, depth, b),
         [op |-> "break", kind |-> kind, depth |-> depth, b |-> b,
          vals |-> <<>>, exc |-> NoExc])

\* break alone in the body, in the first iteration, in a later one, and
\* in no iteration (b beyond the last one)
BreakCases == {<<0, 1>>, <<1, 1>>, <<2, 2>>, <<2, MaxLoop + 1>>}

BreakNext ==
    \E kind \in LoopKinds, c \in BreakCases : ExecBreak(kind, c[1], c[2])

SpecBreak == VMInit /\ [][BreakNext]_vars

\* the iterations the inner loop starts, and whether it is left by break
BreakIterations ==
    IF last.depth = 0 THEN 1
    ELSE IF last.b <= MaxLoop THEN last.b ELSE MaxLoop
BreakHappens == last.depth = 0 \/ last.b <= MaxLoop

\* C6: a break in the body of a While, Repeat, For or ForIn loop, at any
\* block depth, ends that loop only: the rest of the body and the later
\* iterations are skipped, the enclosing loop goes on, and the statement
\* after the loops runs.
C6_BreakEndsInnermostLoop ==
    last.op = "break"
      => /\ last.exc = NoExc
         /\ Global("n") = LuaInt(2 * BreakIterations)
         /\ Global("post")
              = LuaInt(2 * (BreakIterations - (IF BreakHappens THEN 1 ELSE 0)))
         /\ Global("outer") = LuaInt(2)
         /\ Global("after") = LuaInt(1)

C6_Witness ==
    /\ last.op = "break"
    /\ last.kind = "forin"
    /\ last.depth = 2
    /\ last.b = 2
    /\ Global("n") = LuaInt(4)
    /\ Global("post") = LuaInt(2)
    /\ Global("after") = LuaInt(1)

(***************************************************************************)
(* goto and labels.                                                        *)
(***************************************************************************)
GotoForms == {"forward", "backward", "label", "missing"}
LabelNames == {"L", "K", "M"}

\* goto name under depth nested blocks
GotoAt(depth, name) ==
    CASE depth = 0 -> Goto(name)
      [] depth = 1 -> Do(Block(<<Goto(name), Set("x", 1)>>))
      [] depth = 2 ->
            Do(Block(<<If(True, Block(<<Goto(name), Set("x", 1)>>)),
                       Set("x", 1)>>))

\* forward:  x = 0 y = 0 c = 0 <goto L> x = 1 ::L:: y = 2
\* backward: x = 0 y = 0 c = 0 ::L:: c = c + 1 if c < 2 then <goto L> end
\*           y = 2
\* label:    x = 0 y = 0 c = 0 ::L:: y = 2
\* missing:  x = 0 y = 0 c = 0 <goto L> y = 2
GotoChunk(form, depth, name) ==
    Chunk(Block(
        <<Assignment(<<Var("x"), Var("y"), Var("c")>>,
                     <<Num(0), Num(0), Num(0)>>)>>
        \o CASE form = "forward" ->
                  <<GotoAt(depth, name), Set("x", 1), Label(name),
                    Set("y", 2)>>
             [] form = "backward" ->
                  <<Label(name), Inc("c"),
                    If(BinOp(Var("c"), "<", Num(2)),
                       Block(<<GotoAt(depth, name)>>)),
                    Set("y", 2)>>
             [] form = "label" -> <<Label(name), Set("y", 2)>>
             [] form = "missing" -> <<GotoAt(depth, name), Set("y", 2)>>))

ExecGoto(form, depth, name) ==
    Exec(GotoChunk(form, depth, name),
         [op |-> "goto", form |-> form, depth |-> depth, name |-> name,
          vals |-> <<>>, exc |-> NoExc])

GotoNext ==
    \/ \E form \in GotoForms \ {"label"}, depth \in 0..2,
          name \in LabelNames : ExecGoto(form, depth, name)
    \/ \E name \in LabelNames : ExecGoto("label", 0, name)

SpecGoto == VMInit /\ [][GotoNext]_vars

\* C7: goto L continues after the label L of an enclosing block, a label
\* statement does nothing and never fails, and goto L without any label L
\* in the chunk fails with a GotoTargetError.
C7_GotoReachesLabel ==
    last.op = "goto"
      => CASE last.form = "forward" ->
                 /\ last.exc = NoExc
                 /\ Global("x") = LuaInt(0)
                 /\ Global("y") = LuaInt(2)
           [] last.form = "backward" ->
                 /\ last.exc = NoExc
                 /\ Global("x") = LuaInt(0)
                 /\ Global("c") = LuaInt(2)
                 /\ Global("y") = LuaInt(2)
           [] last.form = "label" ->
                 /\ last.exc = NoExc
                 /\ Global("y") = LuaInt(2)
           [] last.form = "missing" ->
                 /\ last.exc = LuaError("GotoTargetError")
                 /\ Global("x") = LuaInt(0)
                 /\ Global("y") = LuaInt(0)

(***************************************************************************)
(* The logical operators and and or.                                       *)
(***************************************************************************)
\* the first operands: the expression the function lf returns, and its
\* value
LogicOperands ==
    <<[e |-> Nil, v |-> LuaNil],
      [e |-> False, v |-> LuaBool(FALSE)],
      [e |-> True, v |-> LuaBool(TRUE)],
      [e |-> Num(0), v |-> LuaInt(0)],
      [e |-> Str(""), v |-> LuaString("")]>>

\* the second operands: a call with a side effect and two results, a call
\* of the undefined global nocall, and a numeral
LogicRhs(kind) ==
    CASE kind = "call" -> Call(Var("rf"), <<>>)
      [] kind = "error" -> Call(Var("nocall"), <<>>)
      [] kind = "numeral" -> Num(7)

\* cnt = 0 rc = 0
\* function lf() cnt = cnt + 1 return <l> end
\* function rf() rc = rc + 1 return 8, 9 end
\* return lf() <op> <rhs>
LogicChunk(l, op, kind) ==
    Chunk(BlockReturn(<<
        Assignment(<<Var("cnt"), Var("rc")>>, <<Num(0), Num(0)>>),
        FunctionStatement(<<"lf">>, FALSE, <<>>,
            BlockReturn(<<Inc("cnt")>>, <<LogicOperands[l].e>>)),
        FunctionStatement(<<"rf">>, FALSE, <<>>,
            BlockReturn(<<Inc("rc")>>, <<Num(8), Num(9)>>))>>,
        <<BinOp(Call(Var("lf"), <<>>), op, LogicRhs(kind))>>))

ExecLogic(l, op, kind) ==
    Exec(LogicChunk(l, op, kind),
         [op |-> "logic", l |-> l, bop |-> op, kind |-> kind,
          vals |-> <<>>, exc |-> NoExc])

LogicNext ==
    \E l \in 1..Len(LogicOperands), op \in {"and", "or"},
       kind \in {"call", "error", "numeral"} : ExecLogic(l, op, kind)

SpecLogic == VMInit /\ [][LogicNext]_vars

\* whether the operation of last gives its first operand
LogicGivesFirst ==
    LET falsy == LogicOperands[last.l].v \in {LuaNil, LuaBool(FALSE)}
    IN IF last.bop = "and" THEN falsy ELSE ~falsy

\* C11: l and r gives l when l is nil or false and r otherwise, l or r
\* gives l when l is neither nil nor false (0 and "" included) and r
\* otherwise; when the result is l, r is not evaluated (no side effect, no
\* error of r), the result of r is its first value, and l is evaluated
\* once.
C11_ShortCircuit ==
    last.op = "logic"
      => /\ Global("cnt") = LuaInt(1)
         /\ IF LogicGivesFirst
            THEN /\ last.exc = NoExc
                 /\ last.vals = <<LogicOperands[last.l].v>>
                 /\ Global("rc") = LuaInt(0)
            ELSE CASE last.kind = "call" ->
                        /\ last.exc = NoExc
                        /\ last.vals = <<LuaInt(8)>>
                        /\ Global("rc") = LuaInt(1)
                   [] last.kind = "numeral" ->
                        /\ last.exc = NoExc
                        /\ last.vals = <<LuaInt(7)>>
                   [] last.kind = "error" -> last.exc # NoExc

C11_Witness ==
    /\ last.op = "logic"
    /\ last.bop = "or"
    /\ LogicOperands[last.l].v = LuaInt(0)
    /\ last.kind = "error"
    /\ last.exc = NoExc
    /\ last.vals = <<LuaInt(0)>>

(***************************************************************************)
(* Assignment to a local declared with the attribute const.                *)
(***************************************************************************)
\* local name <attrib> = n
LocalAttrib(name, attrib, n) ==
    [node |-> "LocalAssignment",
     names |-> <<[name |-> name, attrib |-> attrib]>>,
     exprs |-> <<Num(n)>>]

\* the assignment x = w in the Scope of the declaration, in a nested block,
\* or in a closure of the Scope called afterwards
ConstAssignment(place, w) ==
    CASE place = "same" -> <<Set("x", w)>>
      [] place = "block" -> <<Do(Block(<<Set("x", w)>>))>>
      [] place = "closure" ->
            <<FunctionStatement(<<"f">>, FALSE, <<>>, Block(<<Set("x", w)>>)),
              Call(Var("f"), <<>>)>>

\* local x <attrib> = v, then the assignment, then return x
ConstChunk(attrib, place, v, w) ==
    Chunk(BlockReturn(<<LocalAttrib("x", attrib, v)>>
                        \o ConstAssignment(place, w),
                      <<Var("x")>>))

ExecConst(attrib, place, v, w) ==
    Exec(ConstChunk(attrib, place, v, w),
         [op |-> "const", attrib |-> attrib, place |-> place, v |-> v,
          w |-> w, vals |-> <<>>, exc |-> NoExc])

ConstNext ==
    \E attrib \in {"const", "None"}, place \in {"same", "block", "closure"},
       v \in {1, 2}, w \in {5, 6} : ExecConst(attrib, place, v, w)

SpecConst == VMInit /\ [][ConstNext]_vars

\* the value of the local of the root Scope
RootLocal(name) == ScopeGet(vm, RootScope, LuaString(name))

\* C12: an assignment to a local declared const fails with a ConstError and
\* leaves the value of the local as declared, in the declaring scope, in a
\* nested block and in a closure.
C12_ConstAssignmentFails ==
    (last.op = "const" /\ last.attrib = "const")
      => /\ last.exc = LuaError("ConstError")
         /\ ScopeHas(vm, RootScope, LuaString("x"))
         /\ RootLocal("x") = LuaInt(last.v)
         /\ ~LuaTableHas(vm.tables, GlobalsId, LuaString("x"))

C12_Witness ==
    /\ last.op = "const"
    /\ last.attrib = "const"
    /\ last.place = "closure"
    /\ last.exc = LuaError("ConstError")
    /\ RootLocal("x") = LuaInt(last.v)

(***************************************************************************)
(* To-be-closed variables.  The close handler of a value is the __close    *)
(* entry of its metatable; the host sets the metatable with                *)
(* LuaTable.set_metatable.                                                 *)
(***************************************************************************)
\* closed = 0 h = {} mt = {}
\* function mt.__close() closed = closed + 1 end
CloseSetup ==
    Chunk(Block(<<
        Set("closed", 0),
        Assignment(<<Var("h")>>, <<Table(<<>>)>>),
        Assignment(<<Var("mt")>>, <<Table(<<>>)>>),
        FunctionStatement(<<"mt", "__close">>, FALSE, <<>>,
                          Block(<<Inc("closed")>>))>>))

\* h.set_metatable(mt) on the tables the globals h and mt hold
SetCloseHandler(st) ==
    [st EXCEPT
        !.tables[LuaTableGet(st.tables, GlobalsId, LuaString("h")).v].meta =
            LuaTableGet(st.tables, GlobalsId, LuaString("mt")).v]

\* local name <close> = exp
LocalClose(name, exp) ==
    [node |-> "LocalAssignment",
     names |-> <<[name |-> name, attrib |-> "close"]>>,
     exprs |-> <<exp>>]

\* the declarations of n to-be-closed variables, then y = k
CloseBody(n, k) ==
    [i \in 1..n |-> LocalClose(<<"x", "z">>[i], Var("h"))] \o <<Set("y", k)>>

\* a block that declares n to-be-closed variables and is left by falling
\* off its end, by return, by break or by an error
CloseChunk(path, n, k) ==
    CASE path = "normal" -> Chunk(Block(<<Do(Block(CloseBody(n, k)))>>))
      [] path = "return" ->
            Chunk(Block(<<
                FunctionStatement(<<"f">>, FALSE, <<>>,
                    BlockReturn(CloseBody(n, k), <<Num(k)>>)),
                Call(Var("f"), <<>>)>>))
      [] path = "break" ->
            Chunk(Block(<<
                While(True, Block(CloseBody(n, k) \o <<Break>>))>>))
      [] path = "error" ->
            Chunk(Block(<<
                Do(Block(CloseBody(n, k)
                           \o <<Call(Var("nocall"), <<>>)>>))>>))

\* the host runs the setup, sets the metatable and runs the chunk
ExecClose(path, n, k) ==
    /\ nexec < MaxExecs
    /\ \E r \in {VMExec(CloseChunk(path, n, k),
                        SetCloseHandler(VMExec(CloseSetup, vm).st))} :
          /\ vm' = Raise(r.st, NoExc)
          /\ last' = [op |-> "close", path |-> path, n |-> n, k |-> k,
                      vals |-> r.vals, exc |-> r.st.exc]
    /\ nexec' = nexec + 1

CloseNext ==
    \E path \in {"normal", "return", "break", "error"}, n \in {1, 2},
       k \in {1, 2, 3} : ExecClose(path, n, k)

SpecClose == VMInit /\ [][CloseNext]_vars

\* the close handler is in place when the block runs: the global h has a
\* metatable with the metamethod __close
CloseHandlerSet ==
    HasMetamethod(vm.tables,
                  LuaTableGet(vm.tables, GlobalsId, LuaString("h")).v,
                  LuaString("__close"))

\* C13: when a block that declared to-be-closed variables is left, by
\* falling off its end, by return, by break or by an error, the close
\* handler of each of them has been invoked exactly once.
C13_CloseHandlersInvoked ==
    last.op = "close" => Global("closed") = LuaInt(last.n)

\* the block ran as far as y = k, with the handler in place
C13_BlockRan ==
    last.op = "close" => (CloseHandlerSet /\ Global("y") = LuaInt(last.k))

(***************************************************************************)
(* The closing value of the generic for.                                   *)
(***************************************************************************)
\* the body of the loop: y = k, then nothing, break, or a call of the
\* undefined global nocall
ForInCloseBody(path, k) ==
    <<Set("y", k)>>
      \o (CASE path = "normal" -> <<>>
            [] path = "break" -> <<Break>>
            [] path = "error" -> <<Call(Var("nocall"), <<>>)>>)

\* function iter(s, c) ... end
\* for i in iter, s, 0, <closing> do <body> end
ForInCloseChunk(path, s, closing, k) ==
    Chunk(Block(<<
        IterFunction,
        ForIn(<<"i">>, <<Var("iter"), Num(s), Num(0), closing>>,
              Block(ForInCloseBody(path, k)))>>))

\* the host runs the setup of the close handler, sets the metatable and
\* runs the chunk
ExecForInClose(path, s, closing, k) ==
    /\ nexec < MaxExecs
    /\ \E r \in {VMExec(ForInCloseChunk(path, s,
                            IF closing THEN Var("h") ELSE Nil, k),
                        SetCloseHandler(VMExec(CloseSetup, vm).st))} :
          /\ vm' = Raise(r.st, NoExc)
          /\ last' = [op |-> "forin_close", path |-> path, s |-> s,
                      closing |-> closing, k |-> k,
                      vals |-> r.vals, exc |-> r.st.exc]
    /\ nexec' = nexec + 1

ForInCloseNext ==
    \E path \in {"normal", "break", "error"}, s \in {1, 2},
       closing \in BOOLEAN, k \in {1, 2, 3} : ExecForInClose(path, s, closing, k)

SpecForInClose == VMInit /\ [][ForInCloseNext]_vars

\* C14: a generic for whose fourth initial value is not nil has closed that
\* value exactly once when the loop is left, by exhaustion, by break or by
\* an error, and a loop that runs to exhaustion ends normally.
C14_ClosingValueClosed ==
    (last.op = "forin_close" /\ last.closing)
      => /\ Global("closed") = LuaInt(1)
         /\ last.path = "normal" => last.exc = NoExc

\* without closing value the loop runs and ends as its path says, and with
\* one the body still runs
C14_LoopRan ==
    last.op = "forin_close"
      => /\ CloseHandlerSet
         /\ Global("y") = LuaInt(last.k)
         /\ ~last.closing /\ last.path # "error" => last.exc = NoExc
         /\ last.closing /\ last.path = "normal"
              => last.exc = NotImplementedError

(***************************************************************************)
(* Closures and the Scope of their definition.                             *)
(***************************************************************************)
\* local name = n
Local(name, n) == LocalAssignment(<<name>>, <<Num(n)>>)

\* do local x = a function fn() [x = x + 1] return x end end
ClosureDefinition(a, write) ==
    Do(Block(<<
        Local("x", a),
        FunctionStatement(<<"fn">>, FALSE, <<>>,
            BlockReturn(IF write THEN <<Inc("x")>> ELSE <<>>,
                        <<Var("x")>>))>>))

\* x = 9, the definition, then the call fn() from the root Scope, from a
\* function with its own local x = b, or from a block with its own local
\* x = b; the chunk returns the result of fn and the x of the calling Scope
ClosureChunk(a, b, write, site) ==
    CASE site = "root" ->
            Chunk(BlockReturn(
                <<Set("x", 9), ClosureDefinition(a, write)>>,
                <<Call(Var("fn"), <<>>), Var("x")>>))
      [] site = "function" ->
            Chunk(BlockReturn(
                <<Set("x", 9), ClosureDefinition(a, write),
                  FunctionStatement(<<"caller">>, FALSE, <<>>,
                      BlockReturn(<<Local("x", b)>>,
                                  <<Call(Var("fn"), <<>>), Var("x")>>))>>,
                <<Call(Var("caller"), <<>>)>>))
      [] site = "block" ->
            Chunk(BlockReturn(
                <<Set("x", 9), ClosureDefinition(a, write),
                  Do(Block(<<
                      Local("x", b),
                      Assignment(<<Var("r"), Var("s")>>,
                                 <<Call(Var("fn"), <<>>), Var("x")>>)>>))>>,
                <<Var("r"), Var("s")>>))

ExecClosure(a, b, write, site) ==
    Exec(ClosureChunk(a, b, write, site),
         [op |-> "closure", a |-> a, b |-> b, write |-> write,
          site |-> site, vals |-> <<>>, exc |-> NoExc])

ClosureNext ==
    \E a \in {1, 2}, b \in {5, 6}, write \in BOOLEAN,
       site \in {"root", "function", "block"} : ExecClosure(a, b, write, site)

SpecClosure == VMInit /\ [][ClosureNext]_vars

\* C15: the body of a closure runs in a new Scope whose parent is the Scope
\* of the definition, not the Scope of the caller: a free name of the body
\* is the binding of the defining Scope, read and written, and the x of the
\* calling Scope and the global x are not touched.
C15_ClosureUsesDefiningScope ==
    last.op = "closure"
      => /\ last.exc = NoExc
         /\ last.vals =
              <<LuaInt(IF last.write THEN last.a + 1 ELSE last.a),
                LuaInt(IF last.site = "root" THEN 9 ELSE last.b)>>
         /\ Global("x") = LuaInt(9)

C15_Witness ==
    /\ last.op = "closure"
    /\ last.site = "function"
    /\ last.write
    /\ last.vals = <<LuaInt(last.a + 1), LuaInt(last.b)>>

(***************************************************************************)
(* Assignment to a plain name.                                             *)
(***************************************************************************)
\* the assignment x = w, direct or in a function defined and called in
\* place
PlainAssignment(w, via) ==
    IF via = "direct" THEN <<Set("x", w)>>
    ELSE <<FunctionStatement(<<"set">>, FALSE, <<>>, Block(<<Set("x", w)>>)),
           Call(Var("set"), <<>>)>>

\* x = 9
\* do [local x = a]
\*    do [local x = a + 2] <x = w> r = x end
\*    s = x
\* end
\* return r, s, x
AssignChunk(decl, a, w, via) ==
    Chunk(BlockReturn(<<
        Set("x", 9),
        Do(Block(
            (IF decl \in {"outer", "both"} THEN <<Local("x", a)>> ELSE <<>>)
            \o <<Do(Block(
                    (IF decl \in {"inner", "both"}
                     THEN <<Local("x", a + 2)>> ELSE <<>>)
                    \o PlainAssignment(w, via)
                    \o <<Assignment(<<Var("r")>>, <<Var("x")>>)>>)),
                 Assignment(<<Var("s")>>, <<Var("x")>>)>>))>>,
        <<Var("r"), Var("s"), Var("x")>>))

ExecAssign(decl, a, w, via) ==
    Exec(AssignChunk(decl, a, w, via),
         [op |-> "assign", decl |-> decl, a |-> a, w |-> w, via |-> via,
          vals |-> <<>>, exc |-> NoExc])

AssignNext ==
    \E decl \in {"none", "outer", "inner", "both"}, a \in {1, 2},
       w \in {5, 6}, via \in {"direct", "closure"} :
         ExecAssign(decl, a, w, via)

SpecAssign == VMInit /\ [][AssignNext]_vars

\* C16: an assignment to a plain name mutates the nearest binding of the
\* name in the Scope chain and, with no binding, writes the global; it
\* creates no local binding (the enclosing Scopes see the written global),
\* and the other bindings of the name keep their values.
C16_AssignsNearestBinding ==
    last.op = "assign"
      => /\ last.exc = NoExc
         /\ last.vals =
              CASE last.decl = "none" ->
                     <<LuaInt(last.w), LuaInt(last.w), LuaInt(last.w)>>
                [] last.decl = "outer" ->
                     <<LuaInt(last.w), LuaInt(last.w), LuaInt(9)>>
                [] last.decl = "inner" ->
                     <<LuaInt(last.w), LuaInt(9), LuaInt(9)>>
                [] last.decl = "both" ->
                     <<LuaInt(last.w), LuaInt(last.a), LuaInt(9)>>
         /\ ~ScopeHas(vm, RootScope, LuaString("x"))
         /\ Global("x") = last.vals[3]

C16_Witness ==
    /\ last.op = "assign"
    /\ last.decl = "none"
    /\ last.via = "closure"
    /\ last.vals = <<LuaInt(last.w), LuaInt(last.w), LuaInt(last.w)>>
    /\ Global("x") = LuaInt(last.w)

(***************************************************************************)
(* Calls of values that are not functions.                                 *)
(***************************************************************************)
\* the expressions of the values called: nil, a number, a string and a
\* table without metatable
NotCallable ==
    <<Nil, Num(5), Str("s"), Table(<<>>)>>

\* y = k v = <callee> return v()
\* y = k t = {} t.m = <callee> return t:m()
CallErrorChunk(form, c, k) ==
    IF form = "regular"
    THEN Chunk(BlockReturn(
            <<Set("y", k),
              Assignment(<<Var("v")>>, <<NotCallable[c]>>)>>,
            <<Call(Var("v"), <<>>)>>))
    ELSE Chunk(BlockReturn(
            <<Set("y", k),
              Assignment(<<Var("t")>>, <<Table(<<>>)>>),
              Assignment(<<Index(Var("t"), Str("m"))>>, <<NotCallable[c]>>)>>,
            <<MethodCall(Var("t"), "m", <<>>)>>))

ExecCallError(form, c, k) ==
    Exec(CallErrorChunk(form, c, k),
         [op |-> "call_error", form |-> form, c |-> c, k |-> k,
          vals |-> <<>>, exc |-> NoExc])

CallErrorNext ==
    \E form \in {"regular", "method"}, c \in 1..Len(NotCallable),
       k \in {1, 2, 3} : ExecCallError(form, c, k)

SpecCallError == VMInit /\ [][CallErrorNext]_vars

\* C17: the call of a value that is not a function, in the regular or in
\* the method form, fails with a language-level error of kind TypeError,
\* the error a script raises and a protected call catches.
C17_CallOfNonFunctionIsTypeError ==
    last.op = "call_error" => last.exc = LuaError("TypeError")

\* the call fails on the assertion of the call node, after the statements
\* before it
C17_CallAsserts ==
    last.op = "call_error"
      => (last.exc = AssertionError /\ Global("y") = LuaInt(last.k))

(***************************************************************************)
(* The bridge between the host and the engine: py2lua.py and lua2py.       *)
(* A Python value is None, a bool, an int, a float (in halves), a str, a   *)
(* bytes, or a reference to an object of the Python heap; a heap object is *)
(* a dict, [kind |-> "dict", items |-> <<[k, v], ...>>] in insertion       *)
(* order, or a list, [kind |-> "list", items |-> <<v, ...>>].              *)
(***************************************************************************)
PyNone == [t |-> "NoneType"]
PyBool(b) == [t |-> "pybool", v |-> b]
PyInt(n) == [t |-> "pyint", v |-> n]
PyFloat(h) == [t |-> "pyfloat", v |-> h]
PyStr(s) == [t |-> "pystr", v |-> s]
PyBytes(s) == [t |-> "bytes", v |-> s]
PyRef(id) == [t |-> "pyobj", v |-> id]
PyDict(items) == [kind |-> "dict", items |-> items]
PyList(items) == [kind |-> "list", items |-> items]

\* a str is the sequence of its code points, and the content of a
\* LuaString, a bytes, is named by a string of the model; BytesOf gives the
\* bytes of a content, as iterating the bytes object gives them
Contents == {"t", "w", "hi", "\\xc3\\xa9"}

BytesOf(s) ==
    CASE s = "t" -> <<116>>
      [] s = "w" -> <<119>>
      [] s = "hi" -> <<104, 105>>
      [] s = "\\xc3\\xa9" -> <<195, 169>>
      [] OTHER -> <<>>

\* the content with the given bytes
ContentOf(bytes) == CHOOSE s \in Contents : BytesOf(s) = bytes

RECURSIVE Utf8Bytes(_)
\* the UTF-8 encoding of code points below 2048: one byte below 128, else
\* two
Utf8Bytes(cps) ==
    IF cps = <<>> THEN <<>>
    ELSE (IF Head(cps) < 128 THEN <<Head(cps)>>
          ELSE <<192 + (Head(cps) \div 64), 128 + (Head(cps) % 64)>>)
         \o Utf8Bytes(Tail(cps))

\* str.encode("utf-8")
Utf8Encode(cps) == ContentOf(Utf8Bytes(cps))

\* the state of a conversion: the tables of the engine, obj_map (from the
\* id of a Python object to the id of its LuaTable, 0 when absent) and
\* the exception in flight
Py2LuaStart(tables, heap) ==
    [tables |-> tables, obj_map |-> [i \in 1..Len(heap) |-> 0],
     exc |-> NoExc]

\* m = LuaTable(); obj_map[id(py_val)] = m
Py2LuaNewTable(c, id) ==
    [c EXCEPT !.tables = Append(@, NewTable),
              !.obj_map = IF id = 0 THEN @
                          ELSE [@ EXCEPT ![id] = Len(c.tables) + 1]]

\* an obj_map lookup that hands out a new empty table instead of the table
\* recorded for the object
Py2LuaKnownMutant(py_val, c) ==
    [c |-> [c EXCEPT !.tables = Append(@, NewTable)],
     v |-> LuaTableRef(Len(c.tables) + 1)]

\* if id(py_val) in obj_map: return obj_map[id(py_val)]
Py2LuaKnown(py_val, c) ==
    [c |-> c, v |-> LuaTableRef(c.obj_map[py_val.v])]

RECURSIVE Py2Lua(_, _, _)
RECURSIVE Py2LuaMapping(_, _, _, _, _)
RECURSIVE Py2LuaIterable(_, _, _, _, _)

\* for k, v in py_val.items(): m.put(_py2lua(k, obj_map), _py2lua(v,
\* obj_map)), from the i-th item on
Py2LuaMapping(items, i, m, heap, c) ==
    IF i > Len(items) \/ c.exc # NoExc THEN c
    ELSE With(Py2Lua(items[i].k, heap, c), LAMBDA k :
            IF k.c.exc # NoExc THEN k.c
            ELSE With(Py2Lua(items[i].v, heap, k.c), LAMBDA v :
                    IF v.c.exc # NoExc THEN v.c
                    ELSE With(LuaTablePut(v.c.tables, m, k.v, v.v),
                              LAMBDA put :
                                Py2LuaMapping(items, i + 1, m, heap,
                                    [v.c EXCEPT !.tables = put.tables,
                                                !.exc = put.exc]))))

\* for i, v in enumerate(py_val, start=1): m.put(LuaNumber(i), _py2lua(v,
\* obj_map)), from the i-th item on
Py2LuaIterable(items, i, m, heap, c) ==
    IF i > Len(items) \/ c.exc # NoExc THEN c
    ELSE With(Py2Lua(items[i], heap, c), LAMBDA v :
            IF v.c.exc # NoExc THEN v.c
            ELSE With(LuaTablePut(v.c.tables, m, LuaInt(i), v.v),
                      LAMBDA put :
                        Py2LuaIterable(items, i + 1, m, heap,
                            [v.c EXCEPT !.tables = put.tables,
                                        !.exc = put.exc])))

\* _py2lua(py_val, obj_map); the result is [c, v].  An int becomes
\* LuaNumber(py_val), of type INTEGER, whatever its size; a bytes is no
\* str, so that it is converted as an Iterable of its bytes.
Py2Lua(py_val, heap, c) ==
    IF py_val.t = "pyobj" /\ c.obj_map[py_val.v] # 0
    THEN Py2LuaKnown(py_val, c)
    ELSE CASE py_val.t = "NoneType" -> [c |-> c, v |-> LuaNil]
           [] py_val.t = "pybool" -> [c |-> c, v |-> LuaBool(py_val.v)]
           [] py_val.t = "pyint" -> [c |-> c, v |-> LuaInt(py_val.v)]
           [] py_val.t = "pyfloat" -> [c |-> c, v |-> LuaFloat(py_val.v)]
           [] py_val.t = "pystr" ->
                [c |-> c, v |-> LuaString(Utf8Encode(py_val.v))]
           [] py_val.t = "pyobj" /\ heap[py_val.v].kind = "dict" ->
                [c |-> Py2LuaMapping(heap[py_val.v].items, 1,
                                     Len(c.tables) + 1, heap,
                                     Py2LuaNewTable(c, py_val.v)),
                 v |-> LuaTableRef(Len(c.tables) + 1)]
           [] py_val.t = "pyobj" /\ heap[py_val.v].kind = "list" ->
                [c |-> Py2LuaIterable(heap[py_val.v].items, 1,
                                      Len(c.tables) + 1, heap,
                                      Py2LuaNewTable(c, py_val.v)),
                 v |-> LuaTableRef(Len(c.tables) + 1)]
           [] py_val.t = "bytes" ->
                [c |-> Py2LuaIterable(
                            [j \in 1..Len(BytesOf(py_val.v)) |->
                                PyInt(BytesOf(py_val.v)[j])],
                            1, Len(c.tables) + 1, heap,
                            Py2LuaNewTable(c, 0)),
                 v |-> LuaTableRef(Len(c.tables) + 1)]

\* Python's == on the keys of a dict: numbers and bools by value
PyKeyNumber(x) ==
    CASE x.t = "pybool" -> IF x.v THEN 2 ELSE 0
      [] x.t = "pyint" -> 2 * x.v
      [] x.t = "pyfloat" -> x.v

PyKeyEq(a, b) ==
    IF a.t \in {"pybool", "pyint", "pyfloat"}
         /\ b.t \in {"pybool", "pyint", "pyfloat"}
    THEN PyKeyNumber(a) = PyKeyNumber(b)
    ELSE a = b

\* d[key] = value on the items of a dict
PyDictSet(items, key, value) ==
    LET hits == {i \in 1..Len(items) : PyKeyEq(items[i].k, key)}
    IN IF hits = {} THEN Append(items, [k |-> key, v |-> value])
       ELSE [i \in 1..Len(items) |->
                IF i \in hits THEN [items[i] EXCEPT !.v = value]
                ELSE items[i]]

\* d[key] of the dict id of heap; None when the key is absent
PyDictGet(heap, id, key) ==
    LET hits == {i \in 1..Len(heap[id].items) :
                    PyKeyEq(heap[id].items[i].k, key)}
    IN IF hits = {} THEN PyNone
       ELSE heap[id].items[CHOOSE i \in hits : TRUE].v

\* the state of lua2py: the Python heap, obj_map (from the id of a LuaTable
\* to the id of its dict, 0 when absent) and the exception in flight
Lua2PyStart(tables, heap) ==
    [heap |-> heap, obj_map |-> [i \in 1..Len(tables) |-> 0],
     exc |-> NoExc]

RECURSIVE Lua2Py(_, _, _)
RECURSIVE Lua2PyTable(_, _, _, _, _)

\* the entries of a table into the dict d, from the i-th on; a key that
\* converts to a dict is unhashable
Lua2PyTable(map, i, d, tables, c) ==
    IF i > Len(map) \/ c.exc # NoExc THEN c
    ELSE With(Lua2Py(map[i].k, tables, c), LAMBDA k :
            IF k.c.exc # NoExc THEN k.c
            ELSE IF k.v.t = "pyobj"
            THEN [k.c EXCEPT !.exc = [t |-> "TypeError"]]
            ELSE With(Lua2Py(map[i].v, tables, k.c), LAMBDA v :
                    IF v.c.exc # NoExc THEN v.c
                    ELSE Lua2PyTable(map, i + 1, d, tables,
                            [v.c EXCEPT !.heap[d].items =
                                PyDictSet(@, k.v, v.v)])))

\* lua2py(value): nil is None, a Boolean a bool, an integer an int, a
\* float a float, a string its bytes, and a table a dict, the same dict
\* for the same table; the result is [c, v]
Lua2Py(value, tables, c) ==
    CASE value.t = "nil" -> [c |-> c, v |-> PyNone]
      [] value.t = "bool" -> [c |-> c, v |-> PyBool(value.v)]
      [] value.t = "int" -> [c |-> c, v |-> PyInt(value.v)]
      [] value.t = "float" -> [c |-> c, v |-> PyFloat(value.v)]
      [] value.t = "str" -> [c |-> c, v |-> PyBytes(value.v)]
      [] value.t = "table" /\ c.obj_map[value.v] # 0 ->
            [c |-> c, v |-> PyRef(c.obj_map[value.v])]
      [] value.t = "table" /\ c.obj_map[value.v] = 0 ->
            [c |-> Lua2PyTable(tables[value.v].map, 1, Len(c.heap) + 1,
                               tables,
                               [c EXCEPT !.heap = Append(@, PyDict(<<>>)),
                                         !.obj_map[value.v] =
                                            Len(c.heap) + 1]),
             v |-> PyRef(Len(c.heap) + 1)]

(***************************************************************************)
(* The bridge machine: the host fills two tables with LuaTable.put and     *)
(* converts them with lua2py, converts Python structures with py2lua, and  *)
(* takes a table through lua2py and back through py2lua.                   *)
(***************************************************************************)
BridgeKeys == {LuaString("t"), LuaInt(1)}
BridgeValues ==
    {LuaString("w"), LuaInt(7), LuaTableRef(TableT), LuaTableRef(TableMT)}

\* the Python structures the host converts: d = {} d["t"] = d; l = [] l +=
\* [l, 7]; d = {"t": l} with l = [d]; l = [d, d] with d = {"t": 7}; the
\* str of the code point 233; d = {"hi": "t"}
PyShapes ==
    <<[heap |-> <<PyDict(<<[k |-> PyStr(<<116>>), v |-> PyRef(1)]>>)>>,
       root |-> PyRef(1)],
      [heap |-> <<PyList(<<PyRef(1), PyInt(7)>>)>>, root |-> PyRef(1)],
      [heap |-> <<PyDict(<<[k |-> PyStr(<<116>>), v |-> PyRef(2)]>>),
                  PyList(<<PyRef(1)>>)>>,
       root |-> PyRef(1)],
      [heap |-> <<PyList(<<PyRef(2), PyRef(2)>>),
                  PyDict(<<[k |-> PyStr(<<116>>), v |-> PyInt(7)]>>)>>,
       root |-> PyRef(1)],
      [heap |-> <<>>, root |-> PyStr(<<233>>)],
      [heap |-> <<PyDict(<<[k |-> PyStr(<<104, 105>>),
                           v |-> PyStr(<<116>>)]>>)>>,
       root |-> PyRef(1)]>>

\* t.put(key, value)
HostPut(t, key, value) ==
    /\ nexec < MaxTableOps
    /\ \E put \in {LuaTablePut(vm.tables, t, key, value)} :
          /\ vm' = [vm EXCEPT !.tables = put.tables]
          /\ last' = [op |-> "put", exc |-> put.exc]
    /\ nexec' = nexec + 1

\* d = lua2py(t)
HostLua2Py(t) ==
    /\ nexec < MaxTableOps
    /\ \E r \in {Lua2Py(LuaTableRef(t), vm.tables,
                        Lua2PyStart(vm.tables, <<>>))} :
          last' = [op |-> "lua2py", arg |-> t, heap |-> r.c.heap,
                   obj_map |-> r.c.obj_map, res |-> r.v, exc |-> r.c.exc]
    /\ nexec' = nexec + 1
    /\ UNCHANGED vm

\* m = py2lua(value)
HostPy2Lua(shape) ==
    /\ nexec < MaxTableOps
    /\ \E r \in {Py2Lua(PyShapes[shape].root, PyShapes[shape].heap,
                        Py2LuaStart(vm.tables, PyShapes[shape].heap))} :
          /\ vm' = [vm EXCEPT !.tables = r.c.tables]
          /\ last' = [op |-> "py2lua", shape |-> shape,
                      base |-> Len(vm.tables), obj_map |-> r.c.obj_map,
                      res |-> r.v, exc |-> r.c.exc]
    /\ nexec' = nexec + 1

\* m = py2lua(lua2py(t))
HostRoundTrip(t) ==
    /\ nexec < MaxTableOps
    /\ \E d \in {Lua2Py(LuaTableRef(t), vm.tables,
                        Lua2PyStart(vm.tables, <<>>))} :
        \E r \in {Py2Lua(d.v, d.c.heap,
                         Py2LuaStart(vm.tables, d.c.heap))} :
          /\ vm' = [vm EXCEPT !.tables = r.c.tables]
          /\ last' = [op |-> "round_trip", arg |-> t, res |-> r.v,
                      exc |-> IF d.c.exc # NoExc THEN d.c.exc
                              ELSE r.c.exc]
    /\ nexec' = nexec + 1

BridgeNext ==
    \/ \E t \in {TableT, TableMT}, key \in BridgeKeys,
          value \in BridgeValues : HostPut(t, key, value)
    \/ \E t \in {TableT, TableMT} : HostLua2Py(t)
    \/ \E shape \in 1..Len(PyShapes) : HostPy2Lua(shape)
    \/ \E t \in {TableT, TableMT} : HostRoundTrip(t)

SpecBridge == TableInit /\ [][BridgeNext]_vars

\* the key of a table as lua2py converts it
Lua2PyKey(key) == Lua2Py(key, vm.tables, Lua2PyStart(vm.tables, <<>>)).v

\* lua2py kept the sharing: one dict for each table reached, and an entry
\* that holds a table holds the dict of that table
Lua2PySharing ==
    /\ last.exc = NoExc
    /\ last.res = PyRef(last.obj_map[last.arg])
    /\ Len(last.heap)
         = Cardinality({i \in 1..Len(vm.tables) : last.obj_map[i] # 0})
    /\ \A i \in 1..Len(vm.tables) :
         last.obj_map[i] # 0 =>
            \A j \in 1..Len(vm.tables[i].map) :
                vm.tables[i].map[j].v.t = "table" =>
                    PyDictGet(last.heap, last.obj_map[i],
                              Lua2PyKey(vm.tables[i].map[j].k))
                      = PyRef(last.obj_map[vm.tables[i].map[j].v.v])

\* the value of the table of the object id that stands for its j-th item
Py2LuaItem(heap, id, j) ==
    LuaTableGet(vm.tables, last.obj_map[id],
                IF heap[id].kind = "list" THEN LuaInt(j)
                ELSE LuaString(Utf8Encode(heap[id].items[j].k.v)))

\* py2lua kept the sharing: one new table for each object, and an item
\* that holds an object holds the table of that object
Py2LuaSharing(heap) ==
    /\ last.exc = NoExc
    /\ last.res = LuaTableRef(last.obj_map[1])
    /\ Len(vm.tables) = last.base + Len(heap)
    /\ \A i \in 1..Len(heap) :
         /\ last.obj_map[i] > last.base
         /\ \A k \in 1..Len(heap) : last.obj_map[i] = last.obj_map[k] => i = k
         /\ \A j \in 1..Len(heap[i].items) :
              LET item == IF heap[i].kind = "list" THEN heap[i].items[j]
                          ELSE heap[i].items[j].v
              IN item.t = "pyobj" =>
                    Py2LuaItem(heap, i, j) = LuaTableRef(last.obj_map[item.v])

\* C19: lua2py of a table reachable from itself terminates and gives a dict
\* with the same sharing (for t with t["t"] = t, d = lua2py(t) has
\* d[b"t"] is d), and py2lua of a self-containing dict or list terminates
\* and gives a table that contains itself, with one table for each object.
C19_ConversionKeepsSharing ==
    /\ last.op = "lua2py" => Lua2PySharing
    /\ (last.op = "py2lua" /\ PyShapes[last.shape].root.t = "pyobj")
         => Py2LuaSharing(PyShapes[last.shape].heap)

\* a self-containing list came through py2lua as a table whose first entry
\* is the table itself
C19_Witness ==
    /\ last.op = "py2lua"
    /\ last.shape = 2
    /\ last.res.t = "table"
    /\ LuaTableGet(vm.tables, last.res.v, LuaInt(1)) = last.res
    /\ LuaTableGet(vm.tables, last.res.v, LuaInt(2)) = LuaInt(7)

\* a table t with t["t"] = t came through lua2py as a dict d with
\* d[b"t"] is d
C19_SelfTableWitness ==
    /\ last.op = "lua2py"
    /\ LuaTableGet(vm.tables, last.arg, LuaString("t")) = LuaTableRef(last.arg)
    /\ PyDictGet(last.heap, last.res.v, PyBytes("t")) = last.res

\* a Nil-free scalar: a Boolean, an integer, a float or a string
IsScalar(x) == x.t \in {"bool", "int", "float", "str"}

\* the keys and the values of the table id are scalars
ScalarTable(tables, id) ==
    \A j \in 1..Len(tables[id].map) :
        IsScalar(tables[id].map[j].k) /\ IsScalar(tables[id].map[j].v)

\* the keys of the table id are scalars, and its values are scalars or
\* tables of scalars
RoundTripInput(tables, id) ==
    \A j \in 1..Len(tables[id].map) :
        /\ IsScalar(tables[id].map[j].k)
        /\ \/ IsScalar(tables[id].map[j].v)
           \/ /\ tables[id].map[j].v.t = "table"
              /\ ScalarTable(tables, tables[id].map[j].v.v)

\* the entry of the table b for the key of the j-th entry of the table a:
\* 0, or the index of an entry whose key is of the same type and equal
SameKey(tables, a, j, b) ==
    LET i == DictFind(tables[b].map, tables[a].map[j].k)
    IN IF i # 0 /\ tables[b].map[i].k.t = tables[a].map[j].k.t THEN i ELSE 0

\* two tables of scalars hold the same key/value pairs
SameScalarPairs(tables, a, b) ==
    /\ Len(tables[a].map) = Len(tables[b].map)
    /\ \A j \in 1..Len(tables[a].map) :
         /\ SameKey(tables, a, j, b) # 0
         /\ tables[b].map[SameKey(tables, a, j, b)].v.t
              = tables[a].map[j].v.t
         /\ RelEq(tables[b].map[SameKey(tables, a, j, b)].v,
                  tables[a].map[j].v)

\* two tables hold the same key/value pairs, a table value being matched
\* by a table with the same pairs
SamePairs(tables, a, b) ==
    /\ Len(tables[a].map) = Len(tables[b].map)
    /\ \A j \in 1..Len(tables[a].map) :
         /\ SameKey(tables, a, j, b) # 0
         /\ tables[b].map[SameKey(tables, a, j, b)].v.t
              = tables[a].map[j].v.t
         /\ IF tables[a].map[j].v.t = "table"
            THEN SameScalarPairs(tables, tables[a].map[j].v.v,
                    tables[b].map[SameKey(tables, a, j, b)].v.v)
            ELSE RelEq(tables[b].map[SameKey(tables, a, j, b)].v,
                       tables[a].map[j].v)

\* C20: for a table t whose keys and values are Nil-free scalars or such
\* tables, py2lua(lua2py(t)) is a table with the same key/value pairs as
\* t: the same keys of the same type, each with an equal value, strings
\* included.
C20_RoundTripKeepsPairs ==
    (last.op = "round_trip" /\ RoundTripInput(vm.tables, last.arg))
      => /\ last.exc = NoExc
         /\ last.res.t = "table"
         /\ SamePairs(vm.tables, last.arg, last.res.v)

\* the strings of a table: its string keys and its string values
HasString(tables, id) ==
    \E j \in 1..Len(tables[id].map) :
        tables[id].map[j].k.t = "str" \/ tables[id].map[j].v.t = "str"

\* a table of integers, and a table holding such a table, comes back with
\* the same pairs; a string comes back as the table of its bytes
C20_IntegersRoundTrip ==
    (last.op = "round_trip" /\ RoundTripInput(vm.tables, last.arg))
      => /\ last.exc = NoExc
         /\ last.res.t = "table"
         /\ (~HasString(vm.tables, last.arg)
              /\ \A j \in 1..Len(vm.tables[last.arg].map) :
                    vm.tables[last.arg].map[j].v.t = "table" =>
                        ~HasString(vm.tables, vm.tables[last.arg].map[j].v.v))
              => SamePairs(vm.tables, last.arg, last.res.v)
         /\ \A j \in 1..Len(vm.tables[last.arg].map) :
              vm.tables[last.arg].map[j].v.t = "str" =>
                \E i \in 1..Len(vm.tables[last.res.v].map) :
                    /\ vm.tables[last.res.v].map[i].v.t = "table"
                    /\ LuaTableGet(vm.tables,
                                   vm.tables[last.res.v].map[i].v.v,
                                   LuaInt(1))
                         = LuaInt(BytesOf(vm.tables[last.arg].map[j].v.v)[1])

(***************************************************************************)
(* The integers the engine produces: numerals, sums, the control variable  *)
(* of the numeric for, and the integers the host hands over with py2lua.   *)
(***************************************************************************)
\* the values of the numerals: around MAX_INT64 and around the word
IntegerNumerals ==
    {MAX_INT64 - 1, MAX_INT64, MAX_INT64 + 1,
     2 ^ WordBits - 1, 2 ^ WordBits, 2 ^ WordBits + 5}

\* the integers of the host: in and out of the word
HostIntegers == {0, MAX_INT64, MAX_INT64 + 1, MIN_INT64, MIN_INT64 - 1}

\* v = <numeral> return v
NumeralChunk(kind, n) ==
    Chunk(BlockReturn(
        <<Assignment(<<Var("v")>>, <<IF kind = "hex" THEN Hex(n) ELSE Num(n)>>)>>,
        <<Var("v")>>))

\* s = <a> + <b> return s, the operands written as hexadecimal numerals
\* (0x80 is MIN_INT64 and 0xff is -1 in a word of 8 bits)
SumChunk(a, b) ==
    Chunk(BlockReturn(
        <<Assignment(<<Var("s")>>, <<BinOp(Hex(a), "+", Hex(b))>>)>>,
        <<Var("s")>>))

\* for i = a, MAX_INT64 do r = i end return r
LastStepChunk(a) ==
    Chunk(BlockReturn(
        <<For("i", Num(a), Num(MAX_INT64),
              Block(<<Assignment(<<Var("r")>>, <<Var("i")>>)>>))>>,
        <<Var("r")>>))

ExecNumeral(kind, n) ==
    Exec(NumeralChunk(kind, n),
         [op |-> "numeral", kind |-> kind, n |-> n,
          vals |-> <<>>, exc |-> NoExc])

ExecSum(a, b) ==
    Exec(SumChunk(a, b),
         [op |-> "sum", a |-> a, b |-> b, vals |-> <<>>, exc |-> NoExc])

ExecLastStep(a) ==
    Exec(LastStepChunk(a),
         [op |-> "last_step", a |-> a, vals |-> <<>>, exc |-> NoExc])

\* vm.globals.put(LuaString(b"h"), py2lua(n))
HostInteger(n) ==
    /\ nexec < MaxExecs
    /\ \E r \in {Py2Lua(PyInt(n), <<>>, Py2LuaStart(vm.tables, <<>>))} :
          /\ vm' = VMPutNonlocal(vm, LuaString("h"), r.v)
          /\ last' = [op |-> "py2lua_int", n |-> n, vals |-> <<r.v>>,
                      exc |-> r.c.exc]
    /\ nexec' = nexec + 1

IntegerNext ==
    \/ \E kind \in {"dec", "hex"}, n \in IntegerNumerals : ExecNumeral(kind, n)
    \/ \E a \in {MAX_INT64 - 1, MAX_INT64, MAX_INT64 + 1, 2 ^ WordBits - 1},
          b \in {0, 1, 2, 2 ^ WordBits - 1} : ExecSum(a, b)
    \/ \E a \in {MAX_INT64 - 2, MAX_INT64 - 1, MAX_INT64} : ExecLastStep(a)
    \/ \E n \in HostIntegers : HostInteger(n)

SpecInteger == VMInit /\ [][IntegerNext]_vars

\* v is an integer of the word
InWord(v) == v.t = "int" => (MIN_INT64 <= v.v /\ v.v <= MAX_INT64)

\* v is the integer of the word congruent to n modulo 2^WordBits
WrapOf(v, n) ==
    /\ v.t = "int"
    /\ MIN_INT64 <= v.v /\ v.v <= MAX_INT64
    /\ (v.v - n) % (2 ^ WordBits) = 0

\* the integers of the engine's words are in range: numerals, sums and
\* loop variables
EngineIntegers ==
    /\ last.op \in {"numeral", "sum", "last_step"} =>
            /\ last.exc = NoExc
            /\ Len(last.vals) = 1
            /\ InWord(last.vals[1])
    /\ (last.op = "numeral" /\ last.kind = "hex")
            => WrapOf(last.vals[1], last.n)
    /\ (last.op = "numeral" /\ last.kind = "dec" /\ last.n <= MAX_INT64)
            => last.vals = <<LuaInt(last.n)>>
    /\ last.op = "sum" => WrapOf(last.vals[1], last.a + last.b)
    /\ (last.op = "sum" /\ last.a = MAX_INT64 /\ last.b = 1)
            => last.vals = <<LuaInt(MIN_INT64)>>
    /\ last.op = "last_step" => last.vals = <<LuaInt(MAX_INT64)>>
    /\ \A name \in {"v", "s", "r", "i"} : InWord(Global(name))

\* C18: every number tagged Integer that the engine produces lies in
\* [MIN_INT64, MAX_INT64]: decimal and hexadecimal numerals, integer sums
\* (which wrap, MAX_INT64 + 1 being MIN_INT64), the control variable of the
\* numeric for, and the integers converted from the host; an overflowing
\* hexadecimal numeral wraps modulo 2^WordBits.
C18_IntegersInWord ==
    /\ EngineIntegers
    /\ last.op = "py2lua_int" =>
            /\ last.exc = NoExc
            /\ last.vals[1].t = "int"
            /\ InWord(last.vals[1])
    /\ InWord(Global("h"))

\* the numerals, the sums and the loop variable are in range, and py2lua
\* hands the host's int over as it is
C18_EngineIntegersInWord ==
    /\ EngineIntegers
    /\ last.op = "py2lua_int" => last.vals = <<LuaInt(last.n)>>

(***************************************************************************)
(* Two VirtualMachine instances in one host process.  The objects of both  *)
(* live in the same heap; a machine is [globals, root_scope], the ids of   *)
(* its global table and of its root Scope.                                 *)
(***************************************************************************)
EmptyHeap == [scopes |-> <<>>, tables |-> <<>>, funcs |-> <<>>, exc |-> NoExc]

\* the functions os_table_generator defines in the table, by name
OsFunctions == <<"clock", "tmpname">>

\* @lua_function(table): a new LuaFunction stored in the table under its
\* name
LuaFunctionInto(st, table, name) ==
    [st EXCEPT
        !.funcs = Append(@, [param_names |-> <<>>, variadic |-> FALSE,
                             block |-> None, parent_scope |-> 0,
                             name |-> LuaString(name)]),
        !.tables = LuaTablePut(@, table, LuaString(name),
                               LuaFunctionRef(Len(st.funcs) + 1)).tables]

\* an os_table_generator that hands out the table of an earlier call when
\* there is one
OsTableGeneratorMutant(st) ==
    IF Len(st.tables) >= 2
    THEN [st |-> [st EXCEPT !.tables = Append(@, NewTable)], table |-> 2]
    ELSE [st |-> LuaFunctionInto(
                    LuaFunctionInto(
                        [st EXCEPT !.tables = Append(@, NewTable)],
                        Len(st.tables) + 1, OsFunctions[1]),
                    Len(st.tables) + 1, OsFunctions[2]),
          table |-> Len(st.tables) + 1]

\* os_table_generator(): table = LuaTable(), the functions, return table;
\* the result is [st, table]
OsTableGenerator(st) ==
    [st |-> LuaFunctionInto(
                LuaFunctionInto(
                    [st EXCEPT !.tables = Append(@, NewTable)],
                    Len(st.tables) + 1, OsFunctions[1]),
                Len(st.tables) + 1, OsFunctions[2]),
     table |-> Len(st.tables) + 1]

\* OSLibrary.provide(table): table.put(LuaString(b"os"),
\* os_table_generator())
OSLibraryProvide(st, table) ==
    [OsTableGenerator(st).st EXCEPT
        !.tables = LuaTablePut(@, table, LuaString("os"),
                        LuaTableRef(OsTableGenerator(st).table)).tables]

\* create_global_table(): a new table the libraries provide into; the
\* result is the heap, the table being the one after those of st
CreateGlobalTable(st) ==
    OSLibraryProvide([st EXCEPT !.tables = Append(@, NewTable)],
                     Len(st.tables) + 1)

\* VirtualMachine.__init__: self.globals = create_global_table();
\* self.root_scope = Scope(self, None); the result is [st, machine]
VirtualMachineInit(st) ==
    [st |-> [CreateGlobalTable(st) EXCEPT
                !.scopes = Append(@, [parent |-> 0, vars |-> <<>>])],
     machine |-> [globals |-> Len(st.tables) + 1,
                  root_scope |-> Len(st.scopes) + 1]]

\* a = VirtualMachine() b = VirtualMachine()
TwoMachines == VirtualMachineInit(VirtualMachineInit(EmptyHeap).st).st
MachineA == VirtualMachineInit(EmptyHeap).machine
MachineB == VirtualMachineInit(VirtualMachineInit(EmptyHeap).st).machine

IsolationInit ==
    /\ vm = TwoMachines
    /\ last = NoOp
    /\ nexec = 0

\* VirtualMachine.get_ls(key) of the machine m
MachineGet(st, m, key) ==
    IF ScopeHas(st, m.root_scope, key)
    THEN st.scopes[m.root_scope].vars[
            DictFind(st.scopes[m.root_scope].vars, key)].v.value
    ELSE LuaTableGet(st.tables, m.globals, key)

IsolationNames == {"x", "y", "os"}
IsolationFields == {"clock", "tmpname", "extra"}
IsolationValues == {LuaInt(5), LuaNil}

\* what the machine m reads: every name, and every field of the table its
\* global os holds
MachineReads(st, m) ==
    [name |-> [n \in IsolationNames |-> MachineGet(st, m, LuaString(n))],
     os |-> [f \in IsolationFields |->
                IF LuaTableGet(st.tables, m.globals, LuaString("os")).t
                        = "table"
                THEN LuaTableGet(st.tables,
                        LuaTableGet(st.tables, m.globals,
                                    LuaString("os")).v,
                        LuaString(f))
                ELSE LuaNil]]

\* the chunks the first machine runs: <name> = <value>, local <name> =
\* <value>, os.<field> = <value>
IsolationChunk(kind, name, value) ==
    CASE kind = "global" ->
            Chunk(Block(<<Assignment(<<Var(name)>>, <<value>>)>>))
      [] kind = "local" ->
            Chunk(Block(<<LocalAssignment(<<name>>, <<value>>)>>))
      [] kind = "field" ->
            Chunk(Block(<<Assignment(<<Index(Var("os"), Str(name))>>,
                                     <<value>>)>>))

\* a.exec(chunk)
ExecIsolation(kind, name, value) ==
    Exec(IsolationChunk(kind, name, value),
         [op |-> "exec", machine |-> "a", kind |-> kind, name |-> name,
          vals |-> <<>>, exc |-> NoExc])

\* m.put_nonlocal_ls(key, value), that is m.globals.put(key, value)
HostPutNonlocal(who, m, name, value) ==
    /\ nexec < MaxExecs
    /\ \E put \in {LuaTablePut(vm.tables, m.globals, LuaString(name),
                               value)} :
          /\ vm' = [vm EXCEPT !.tables = put.tables]
          /\ last' = [op |-> "put_nonlocal", machine |-> who,
                      name |-> name, exc |-> put.exc]
    /\ nexec' = nexec + 1

\* m.put_local_ls(key, Variable(value))
HostPutLocal(who, m, name, value) ==
    /\ nexec < MaxExecs
    /\ vm' = ScopePutLocal(vm, m.root_scope, LuaString(name),
                           Variable(value))
    /\ last' = [op |-> "put_local", machine |-> who, name |-> name,
                exc |-> NoExc]
    /\ nexec' = nexec + 1

\* m.globals.get(LuaString(b"os")).put(LuaString(field), value)
HostPutField(who, m, field, value) ==
    /\ nexec < MaxExecs
    /\ LuaTableGet(vm.tables, m.globals, LuaString("os")).t = "table"
    /\ \E put \in {LuaTablePut(vm.tables,
                        LuaTableGet(vm.tables, m.globals,
                                    LuaString("os")).v,
                        LuaString(field), value)} :
          /\ vm' = [vm EXCEPT !.tables = put.tables]
          /\ last' = [op |-> "put_field", machine |-> who,
                      name |-> field, exc |-> put.exc]
    /\ nexec' = nexec + 1

IsolationNext ==
    \/ \E name \in IsolationNames, value \in {Num(5), Nil} :
            \/ ExecIsolation("global", name, value)
            \/ ExecIsolation("local", name, value)
    \/ \E field \in IsolationFields, value \in {Num(5), Nil} :
            ExecIsolation("field", field, value)
    \/ \E who \in {"a", "b"}, name \in IsolationNames,
          value \in IsolationValues :
            \/ HostPutNonlocal(who, IF who = "a" THEN MachineA ELSE MachineB,
                               name, value)
            \/ HostPutLocal(who, IF who = "a" THEN MachineA ELSE MachineB,
                            name, value)
    \/ \E who \in {"a", "b"}, field \in IsolationFields,
          value \in IsolationValues :
            HostPutField(who, IF who = "a" THEN MachineA ELSE MachineB,
                         field, value)

SpecIsolation == IsolationInit /\ [][IsolationNext]_vars

\* C21: two VirtualMachine instances share no mutable state: an exec or a
\* put on one of them (a global, a local of the root Scope, a field of
\* the library table os) leaves every name lookup and every read of the
\* library table of the other as it was.
C21_MachinesIsolated ==
    [][/\ last'.machine = "a"
            => MachineReads(vm', MachineB) = MachineReads(vm, MachineB)
       /\ last'.machine = "b"
            => MachineReads(vm', MachineA) = MachineReads(vm, MachineA)]_vars

\* the first machine ran os.clock = 5 and reads it back, and the second
\* still reads the function of its own table
C21_Witness ==
    /\ last.op = "exec"
    /\ last.kind = "field"
    /\ last.name = "clock"
    /\ MachineReads(vm, MachineA).os["clock"] = LuaInt(5)
    /\ MachineReads(vm, MachineB).os["clock"].t = "func"
    /\ MachineReads(vm, MachineB) = MachineReads(TwoMachines, MachineB)

(***************************************************************************)
(* The rendering of a table as a string.                                   *)
(***************************************************************************)
\* str(self.value) of a float held in halves
PyFloatStr(x) ==
    IF x.nan THEN "nan"
    ELSE (IF x.v < 0 THEN "-" ELSE "")
         \o ToString((IF x.v < 0 THEN -x.v ELSE x.v) \div 2)
         \o (IF x.v % 2 = 0 THEN ".0" ELSE ".5")

\* __str__ of the values that are no tables
ValueStr(x) ==
    CASE x.t = "nil" -> "nil"
      [] x.t = "bool" -> IF x.v THEN "true" ELSE "false"
      [] x.t = "int" -> ToString(x.v)
      [] x.t = "float" -> PyFloatStr(x)
      [] x.t = "str" -> x.v
      [] OTHER -> "function"

RECURSIVE RecursiveDetectingStr(_, _, _)
RECURSIVE RenderPairs(_, _, _, _, _)

\* key_str and value_str of recursive_detecting_str: str(x), or the
\* rendering of the table x with the same seen_objects
RenderPiece(tables, x, seen) ==
    IF x.t = "table" THEN RecursiveDetectingStr(tables, x.v, seen)
    ELSE [s |-> ValueStr(x), seen |-> seen]

\* for key, value in self.map.items(), from the i-th pair on, joined with
\* ", "
RenderPairs(tables, map, i, seen, acc) ==
    IF i > Len(map) THEN [s |-> acc, seen |-> seen]
    ELSE With(RenderPiece(tables, map[i].k, seen), LAMBDA k :
            With(RenderPiece(tables, map[i].v, k.seen), LAMBDA v :
                RenderPairs(tables, map, i + 1, v.seen,
                    acc \o (IF i > 1 THEN ", " ELSE "")
                        \o "(" \o k.s \o ")=(" \o v.s \o ")")))

\* a rendering that shows a table met again as an empty table
RecursiveDetectingStrMutant(tables, id, seen) ==
    IF id \in seen THEN [s |-> "{}", seen |-> seen]
    ELSE With(RenderPairs(tables, tables[id].map, 1, seen \cup {id}, ""),
              LAMBDA r : [s |-> "{" \o r.s \o "}", seen |-> r.seen])

\* LuaTable.recursive_detecting_str(seen_objects); seen_objects is one set
\* shared by the whole rendering, so that the result is [s, seen]
RecursiveDetectingStr(tables, id, seen) ==
    IF id \in seen THEN [s |-> "{<...>}", seen |-> seen]
    ELSE With(RenderPairs(tables, tables[id].map, 1, seen \cup {id}, ""),
              LAMBDA r : [s |-> "{" \o r.s \o "}", seen |-> r.seen])

\* LuaTable.__str__
LuaTableStr(tables, id) == RecursiveDetectingStr(tables, id, {}).s

RenderKeys == {LuaString("t"), LuaTableRef(TableT)}
RenderValues == {LuaInt(7), LuaTableRef(TableT), LuaTableRef(TableMT)}

\* s = str(t)
HostStr(t) ==
    /\ nexec < MaxTableOps
    /\ \E r \in {RecursiveDetectingStr(vm.tables, t, {})} :
          last' = [op |-> "str", arg |-> t, res |-> r.s, seen |-> r.seen]
    /\ nexec' = nexec + 1
    /\ UNCHANGED vm

RenderNext ==
    \/ \E t \in {TableT, TableMT}, key \in RenderKeys,
          value \in RenderValues : HostPut(t, key, value)
    \/ \E t \in {TableT, TableMT} : HostStr(t)

SpecRender == TableInit /\ [][RenderNext]_vars

RECURSIVE ExpandedStr(_, _, _)
RECURSIVE ExpandedPairs(_, _, _, _, _)

\* the rendering that expands a table unless it is still being rendered:
\* path is the set of the tables being rendered
ExpandedPiece(tables, x, path) ==
    IF x.t = "table" THEN ExpandedStr(tables, x.v, path) ELSE ValueStr(x)

ExpandedPairs(tables, map, i, path, acc) ==
    IF i > Len(map) THEN acc
    ELSE ExpandedPairs(tables, map, i + 1, path,
            acc \o (IF i > 1 THEN ", " ELSE "")
                \o "(" \o ExpandedPiece(tables, map[i].k, path)
                \o ")=(" \o ExpandedPiece(tables, map[i].v, path) \o ")")

ExpandedStr(tables, id, path) ==
    IF id \in path THEN "{<...>}"
    ELSE "{" \o ExpandedPairs(tables, tables[id].map, 1, path \cup {id}, "")
             \o "}"

\* the number of keys and values of the table a that are the table b
RefCount(tables, a, b) ==
    Cardinality({j \in 1..Len(tables[a].map) :
                    tables[a].map[j].k = LuaTableRef(b)})
    + Cardinality({j \in 1..Len(tables[a].map) :
                    tables[a].map[j].v = LuaTableRef(b)})

\* the other of the two tables of the host
OtherTable(t) == IF t = TableT THEN TableMT ELSE TableT

\* C22: str(t) terminates for every table graph, tables that contain
\* themselves as keys or values, directly or through another table,
\* included; a table met again while it is still being rendered is shown
\* as {<...>} and not expanded, and every table is expanded at most once.
C22_RenderingTerminates ==
    last.op = "str"
      => /\ last.seen \subseteq {TableT, TableMT}
         /\ last.arg \in last.seen
         /\ RefCount(vm.tables, last.arg, OtherTable(last.arg)) <= 1
              => last.res = ExpandedStr(vm.tables, last.arg, {})

\* t.t = u and u.t = t: t is rendered with u expanded and, inside u, t as
\* the placeholder
C22_Witness ==
    /\ last.op = "str"
    /\ last.arg = TableT
    /\ last.res = "{(t)=({(t)=({<...>})})}"

\* t[t] = t: a table that is its own key and its own value
C22_SelfKeyWitness ==
    /\ last.op = "str"
    /\ last.res = "{({<...>})=({<...>})}"

(***************************************************************************)
(* tonumber(e, base) of the basic library.  A string is the sequence of    *)
(* its characters.                                                         *)
(***************************************************************************)
MaxDigits == 2

\* the digits of the bases up to 36, in order of value
DigitChars ==
    <<"0", "1", "2", "3", "4", "5", "6", "7", "8", "9", "A", "B", "C", "D",
      "E", "F", "G", "H", "I", "J", "K", "L", "M", "N", "O", "P", "Q", "R",
      "S", "T", "U", "V", "W", "X", "Y", "Z">>

\* the value of a digit, or 36 for a character that is no digit
DigitValue(c) ==
    IF \E i \in 1..Len(DigitChars) : DigitChars[i] = c
    THEN (CHOOSE i \in 1..Len(DigitChars) : DigitChars[i] = c) - 1
    ELSE Len(DigitChars)

\* the characters after the optional sign
Unsigned(s) == IF s # <<>> /\ s[1] \in {"+", "-"} THEN Tail(s) ELSE s

RECURSIVE DigitsValue(_, _, _)
\* the number the digits denote in the base, most significant first, from
\* the accumulated value acc
DigitsValue(digits, base, acc) ==
    IF digits = <<>> THEN acc
    ELSE DigitsValue(Tail(digits), base, acc * base + DigitValue(Head(digits)))

\* tonumber(e, base) with a base: e must be a string; fail (nil) for a
\* digit that is not valid in the base, else the integer, wrapped into
\* the word; the result is [exc, v]
Tonumber(e, base) ==
    IF e.t # "chars"
    THEN [exc |-> LuaError("TypeError"), v |-> LuaNil]
    ELSE IF Unsigned(e.v) = <<>>
            \/ \E i \in 1..Len(Unsigned(e.v)) :
                    DigitValue(Unsigned(e.v)[i]) >= base
    THEN [exc |-> NoExc, v |-> LuaNil]
    ELSE [exc |-> NoExc,
          v |-> LuaInt(IntWrap(
                    (IF e.v[1] = "-" THEN -1 ELSE 1)
                        * DigitsValue(Unsigned(e.v), base, 0)))]

\* a string argument
Chars(s) == [t |-> "chars", v |-> s]

\* the length of the run of Z: 36^ZRun is a multiple of 4^ZRun, that is of
\* 2^WordBits
ZRun == (WordBits + 1) \div 2

\* the calls of test_base and test_fail whose values fit the word of the
\* model, with the result asserted; the run of Z is long enough for 36 to
\* that power to be a multiple of the word
TonumberTestsMutant ==
    <<[e |-> Chars(<<"+", "8", "5">>), base |-> 10, v |-> LuaInt(85)],
      [e |-> Chars(<<"-", "9", "5">>), base |-> 10, v |-> LuaInt(-95)],
      [e |-> Chars(<<"1">>), base |-> 16, v |-> LuaInt(1)],
      [e |-> Chars(<<"1", "9">>), base |-> 16, v |-> LuaInt(25)],
      [e |-> Chars(<<"+", "5", "5">>), base |-> 16, v |-> LuaInt(85)],
      [e |-> Chars(<<"-", "5", "F">>), base |-> 16, v |-> LuaInt(-95)],
      [e |-> Chars([i \in 1..ZRun |-> "Z"]), base |-> 36,
       v |-> LuaInt(MAX_INT64)],
      [e |-> Chars(<<"5">>), base |-> 3, v |-> LuaNil]>>

TonumberTests ==
    <<[e |-> Chars(<<"+", "8", "5">>), base |-> 10, v |-> LuaInt(85)],
      [e |-> Chars(<<"-", "9", "5">>), base |-> 10, v |-> LuaInt(-95)],
      [e |-> Chars(<<"1">>), base |-> 16, v |-> LuaInt(1)],
      [e |-> Chars(<<"1", "9">>), base |-> 16, v |-> LuaInt(25)],
      [e |-> Chars(<<"+", "5", "5">>), base |-> 16, v |-> LuaInt(85)],
      [e |-> Chars(<<"-", "5", "F">>), base |-> 16, v |-> LuaInt(-95)],
      [e |-> Chars([i \in 1..ZRun |-> "Z"]), base |-> 36,
       v |-> LuaInt(-1)],
      [e |-> Chars(<<"5">>), base |-> 3, v |-> LuaNil]>>

TonumberBases == {2, 3, 10, 16, 36}
TonumberChars == {"0", "1", "5", "F", "Z"}

\* the strings of one to MaxDigits digits with an optional sign
TonumberStrings ==
    {sign \o digits :
        sign \in {<<>>, <<"+">>, <<"-">>},
        digits \in UNION {[1..n -> TonumberChars] : n \in 1..MaxDigits}}

\* tonumber(e, base), the one call of a behaviour
CallTonumber(e, base, test) ==
    /\ nexec = 0
    /\ \E r \in {Tonumber(e, base)} :
          last' = [op |-> "tonumber", e |-> e, base |-> base, test |-> test,
                   vals |-> IF r.exc = NoExc THEN <<r.v>> ELSE <<>>,
                   exc |-> r.exc]
    /\ nexec' = nexec + 1
    /\ UNCHANGED vm

TonumberNext ==
    \/ \E s \in TonumberStrings, base \in TonumberBases :
            CallTonumber(Chars(s), base, 0)
    \/ \E n \in {1, 25}, base \in TonumberBases :
            CallTonumber(LuaInt(n), base, 0)
    \/ \E i \in 1..Len(TonumberTests) :
            CallTonumber(TonumberTests[i].e, TonumberTests[i].base, i)

SpecTonumber == VMInit /\ [][TonumberNext]_vars

\* base to the power n
Power(base, n) == base ^ n

\* the integer the signed digits denote: the sum of digit * base^position
Denoted(s, base) ==
    LET digits == Unsigned(s)
        Sum[i \in 0..Len(digits)] ==
            IF i = 0 THEN 0
            ELSE Sum[i - 1]
                 + DigitValue(digits[i]) * Power(base, Len(digits) - i)
    IN (IF s[1] = "-" THEN -1 ELSE 1) * Sum[Len(digits)]

\* C23: tonumber(s, base) of an optionally signed string of digits valid
\* in the base is the integer the string denotes, wrapped into the word
\* (a long run of Z in base 36 gives -1); with a digit that is not valid
\* in the base it is nil; with a number as first argument it raises a
\* LuaError; and the calls of the tests give the results the tests assert.
C23_TonumberWithBase ==
    last.op = "tonumber"
      => /\ last.e.t # "chars" => last.exc.t = "LuaError"
         /\ (last.e.t = "chars"
               /\ \A i \in 1..Len(Unsigned(last.e.v)) :
                    DigitValue(Unsigned(last.e.v)[i]) < last.base)
              => /\ last.exc = NoExc
                 /\ WrapOf(last.vals[1], Denoted(last.e.v, last.base))
         /\ (last.e.t = "chars"
               /\ \E i \in 1..Len(Unsigned(last.e.v)) :
                    DigitValue(Unsigned(last.e.v)[i]) >= last.base)
              => (last.exc = NoExc /\ last.vals = <<LuaNil>>)
         /\ last.test # 0 => last.vals = <<TonumberTests[last.test].v>>

\* the run of Z in base 36 came out as -1
C23_Witness ==
    /\ last.op = "tonumber"
    /\ last.base = 36
    /\ last.e.t = "chars"
    /\ Len(last.e.v) = ZRun
    /\ last.vals = <<LuaInt(-1)>>

(***************************************************************************)
(* Table constructors.                                                     *)
(***************************************************************************)
\* name = value and [key] = value
Named(name, value) ==
    [node |-> "FieldWithKey", key |-> [node |-> "Name", name |-> name],
     value |-> value]
Keyed(key, value) == [node |-> "FieldWithKey", key |-> key, value |-> value]

FieldKinds == {"num", "call", "empty", "named", "keyed"}

\* the i-th field of a constructor, by kind: the numeral 10 + i, f(), g(),
\* k = 20 + i, [6] = 30 + i
CtorField(kind, i) ==
    CASE kind = "num" -> [node |-> "FieldCounterKey", value |-> Num(10 + i)]
      [] kind = "call" ->
            [node |-> "FieldCounterKey", value |-> Call(Var("f"), <<>>)]
      [] kind = "empty" ->
            [node |-> "FieldCounterKey", value |-> Call(Var("g"), <<>>)]
      [] kind = "named" -> Named("k", Num(20 + i))
      [] kind = "keyed" -> Keyed(Num(6), Num(30 + i))

\* the lists of kinds: all of one and two fields, and three of three
CtorShapes ==
    {<<a>> : a \in FieldKinds}
      \cup {<<a, b>> : a, b \in FieldKinds}
      \cup {<<"call", "named", "call">>, <<"num", "keyed", "call">>,
            <<"call", "call", "num">>}

\* function f() return 8, 9 end function g() end
\* t = {<fields>}
CtorChunk(kinds) ==
    Chunk(Block(<<
        FunctionStatement(<<"f">>, FALSE, <<>>,
                          BlockReturn(<<>>, <<Num(8), Num(9)>>)),
        FunctionStatement(<<"g">>, FALSE, <<>>, Block(<<>>)),
        Assignment(<<Var("t")>>,
                   <<Table([i \in 1..Len(kinds) |-> CtorField(kinds[i], i)])>>)
        >>))

ExecCtor(kinds) ==
    Exec(CtorChunk(kinds),
         [op |-> "ctor", kinds |-> kinds, vals |-> <<>>, exc |-> NoExc])

CtorNext == \E kinds \in CtorShapes : ExecCtor(kinds)

SpecCtor == VMInit /\ [][CtorNext]_vars

\* the keys a constructor of the model can fill
CtorKeys == {LuaInt(i) : i \in 1..6} \cup {LuaString("k")}

\* the values of a positional field: all of them for the last field, the
\* first (nil when there is none) for another
CtorValues(kind, i, n) ==
    LET all == CASE kind = "num" -> <<LuaInt(10 + i)>>
                 [] kind = "call" -> <<LuaInt(8), LuaInt(9)>>
                 [] kind = "empty" -> <<>>
    IN IF i = n THEN all
       ELSE IF all = <<>> THEN <<LuaNil>> ELSE <<all[1]>>

RECURSIVE CtorExpected(_, _, _, _)
\* the table the fields from the i-th on leave, by key: counter is the
\* next positional key and map the table so far
CtorExpected(kinds, i, counter, map) ==
    IF i > Len(kinds) THEN map
    ELSE IF kinds[i] = "named"
    THEN CtorExpected(kinds, i + 1, counter,
            [map EXCEPT ![LuaString("k")] = LuaInt(20 + i)])
    ELSE IF kinds[i] = "keyed"
    THEN CtorExpected(kinds, i + 1, counter,
            [map EXCEPT ![LuaInt(6)] = LuaInt(30 + i)])
    ELSE CtorExpected(kinds, i + 1, counter + 1,
            [key \in CtorKeys |->
                IF key.t = "int" /\ key.v >= counter
                     /\ key.v < counter
                                + Len(CtorValues(kinds[i], i, Len(kinds)))
                THEN CtorValues(kinds[i], i, Len(kinds))[key.v - counter + 1]
                ELSE map[key]])

\* C24: a table constructor stores its positional fields at the keys 1, 2,
\* 3, ... in order; a keyed field does not advance the counter; a
\* positional field that is not the last gives one value; a last
\* positional field gives all its values, at consecutive keys from the
\* counter.
C24_ConstructorFillsTable ==
    last.op = "ctor"
      => /\ last.exc = NoExc
         /\ Global("t").t = "table"
         /\ \A key \in CtorKeys :
                LuaTableGet(vm.tables, Global("t").v, key)
                  = CtorExpected(last.kinds, 1, 1,
                                 [k \in CtorKeys |-> LuaNil])[key]

\* {f(), k = 22, f()}: 8 at 1, then 8 and 9 at 2 and 3
C24_Witness ==
    /\ last.op = "ctor"
    /\ last.kinds = <<"call", "named", "call">>
    /\ GlobalAt("t", 1) = LuaInt(8)
    /\ GlobalAt("t", 2) = LuaInt(8)
    /\ GlobalAt("t", 3) = LuaInt(9)
    /\ LuaTableGet(vm.tables, Global("t").v, LuaString("k")) = LuaInt(22)

(***************************************************************************)
(* Numeric for loops with a step of zero.                                  *)
(***************************************************************************)
\* the steps: the integer 0, the floats 0.0 and -0.0, and the integer 1
ZeroSteps == {"0", "0.0", "-0.0"}
StepExpr(x) ==
    CASE x = "0" -> Num(0)
      [] x = "0.0" -> Fract(0, "0")
      [] x = "-0.0" -> Neg(Fract(0, "0"))
      [] x = "1" -> Num(1)

\* n = 0
\* for i = a, b, step do n = n + 1 end
ForZeroChunk(a, b, step) ==
    Chunk(Block(<<
        Assignment(<<Var("n")>>, <<Num(0)>>),
        ForBy("i", Num(a), Num(b), StepExpr(step), Block(<<Inc("n")>>))>>))

ExecForZero(a, b, step) ==
    Exec(ForZeroChunk(a, b, step),
         [op |-> "forzero", a |-> a, b |-> b, step |-> step, vals |-> <<>>,
          exc |-> NoExc])

\* a limit below the start, the start, and above it
ForZeroNext ==
    \E a \in {1, 2} : \E b \in 1..MaxLoop :
        \E step \in ZeroSteps \cup {"1"} : ExecForZero(a, b, step)

SpecForZero == VMInit /\ [][ForZeroNext]_vars

\* C25: a numeric for loop whose step is zero, the integer 0 or the float
\* 0.0, fails with the language-level error DomainError, and its body has
\* not run.
C25_ZeroStepIsDomainError ==
    (last.op = "forzero" /\ last.step \in ZeroSteps)
      => /\ last.exc = LuaError("DomainError")
         /\ Global("n") = LuaInt(0)

\* what the source does: the host's NotImplementedError, the body not run
C25_ZeroStepIsNotImplemented ==
    (last.op = "forzero" /\ last.step \in ZeroSteps)
      => /\ last.exc = NotImplementedError
         /\ Global("n") = LuaInt(0)

(***************************************************************************)
(* Integer for loops at the ends of the integer range.                     *)
(***************************************************************************)
\* the expression of the integer v: a numeral, its negation, or for the
\* least integer -MAX_INT64 + -1
IntExpr(v) ==
    IF v >= 0 THEN Num(v)
    ELSE IF v = MIN_INT64 THEN BinOp(Neg(Num(MAX_INT64)), "+", Neg(Num(1)))
    ELSE Neg(Num(-v))

\* the integer d away from the end of the range in the direction dir
Edge(dir, d) == IF dir = 1 THEN MAX_INT64 - d ELSE MIN_INT64 + d

\* t = {} n = 0
\* for i = a, b, step do n = n + 1 t[n] = i end
ForEdgeChunk(a, b, step) ==
    Chunk(Block(<<
        Assignment(<<Var("t"), Var("n")>>, <<Table(<<>>), Num(0)>>),
        ForBy("i", IntExpr(a), IntExpr(b), IntExpr(step), Block(<<
            Inc("n"),
            Assignment(<<Index(Var("t"), Var("n"))>>, <<Var("i")>>)>>))>>))

ExecForEdge(a, b, step) ==
    Exec(ForEdgeChunk(a, b, step),
         [op |-> "foredge", a |-> a, b |-> b, step |-> step, vals |-> <<>>,
          exc |-> NoExc])

\* how far from an end of the range the loops start at most
EdgeStarts == 2

\* loops that start at most EdgeStarts from an end of the range and run to
\* at most 1 from it, by steps of 1 and 2 towards it
ForEdgeNext ==
    \E dir \in {1, -1} : \E da \in 0..EdgeStarts : \E db \in 0..1 : \E m \in 1..2 :
        ExecForEdge(Edge(dir, da), Edge(dir, db), dir * m)

SpecForEdge == VMInit /\ [][ForEdgeNext]_vars

\* the integers of the range a, a + step, a + 2 * step, ... not past b
ForEdgeValues(a, b, step) ==
    {v \in (IF step > 0 THEN a..MAX_INT64 ELSE MIN_INT64..a) :
        IF step > 0 THEN v >= a /\ v <= b /\ (v - a) % step = 0
        ELSE v <= a /\ v >= b /\ (a - v) % (-step) = 0}

\* C26: an integer for loop ends, and its control variable never wraps:
\* the body runs once for each integer of the range a, a + step, ... not
\* past the limit, with that value, and the loop ends when the next value
\* would overflow (for i = MAX_INT64 - 1, MAX_INT64 runs the body twice).
C26_IntegerLoopNeverWraps ==
    last.op = "foredge"
      => /\ last.exc = NoExc
         /\ Global("n")
              = LuaInt(Cardinality(ForEdgeValues(last.a, last.b, last.step)))
         /\ \A k \in 1..(EdgeStarts + 2) :
                GlobalAt("t", k)
                  = IF k <= Cardinality(ForEdgeValues(last.a, last.b,
                                                      last.step))
                    THEN LuaInt(last.a + (k - 1) * last.step)
                    ELSE LuaNil

\* for i = MAX_INT64 - 1, MAX_INT64 do ... end has run its body twice
C26_Witness ==
    /\ last.op = "foredge"
    /\ last.a = MAX_INT64 - 1 /\ last.b = MAX_INT64 /\ last.step = 1
    /\ Global("n") = LuaInt(2)
    /\ GlobalAt("t", 2) = LuaInt(MAX_INT64)
    /\ GlobalAt("t", 3) = LuaNil

(***************************************************************************)
(* Numeric for loops whose body assigns to the variables of the limit and  *)
(* of the step.                                                            *)
(***************************************************************************)
\* the starts and the limits, and the steps in halves: 1, 2, -1 and 0.5
LoopStarts == {1, 2}
LoopLimits == {1, 2, 3}
LoopSteps == {2, 4, -2, 1}

\* the expression of the number of h halves
HalvesExpr(h) ==
    IF h % 2 = 0 THEN IntExpr(h \div 2)
    ELSE IF h > 0 THEN Fract(h \div 2, "5")
    ELSE Neg(Fract((-h) \div 2, "5"))

\* function ev(v) c = c + 1 return v end
\* c = 0 n = 0 t = {} lim = b stp = step
\* for i = ev(a), ev(lim), ev(stp) do
\*   n = n + 1 t[n] = i lim = lim + 1 stp = stp + stp
\* end
ForOnceChunk(a, b, h) ==
    Chunk(Block(<<
        FunctionStatement(<<"ev">>, FALSE, <<"v">>,
                          BlockReturn(<<Inc("c")>>, <<Var("v")>>)),
        Assignment(<<Var("c"), Var("n"), Var("t"), Var("lim"), Var("stp")>>,
                   <<Num(0), Num(0), Table(<<>>), Num(b), HalvesExpr(h)>>),
        ForBy("i", Call(Var("ev"), <<Num(a)>>),
              Call(Var("ev"), <<Var("lim")>>),
              Call(Var("ev"), <<Var("stp")>>),
              Block(<<
                Inc("n"),
                Assignment(<<Index(Var("t"), Var("n"))>>, <<Var("i")>>),
                Inc("lim"),
                Assignment(<<Var("stp")>>,
                           <<BinOp(Var("stp"), "+", Var("stp"))>>)>>))>>))

ExecForOnce(a, b, h) ==
    Exec(ForOnceChunk(a, b, h),
         [op |-> "foronce", a |-> a, b |-> b, h |-> h, vals |-> <<>>,
          exc |-> NoExc])

ForOnceNext ==
    \E a \in LoopStarts : \E b \in LoopLimits : \E h \in LoopSteps :
        ExecForOnce(a, b, h)

SpecForOnce == VMInit /\ [][ForOnceNext]_vars

\* how many of a, a + step, a + 2 * step, ... are not past b, in halves
ForCount(a, b, h) ==
    IF h > 0 THEN (IF a > b THEN 0 ELSE (b - a) \div h + 1)
    ELSE (IF a < b THEN 0 ELSE (a - b) \div (-h) + 1)

\* the k-th value of the loop: an integer when the step is one
ForValue(a, h, k) ==
    IF h % 2 = 0 THEN LuaInt(a + (k - 1) * (h \div 2))
    ELSE LuaFloat(2 * a + (k - 1) * h)

\* C27: a numeric for loop evaluates its start, limit and step once each,
\* before the first iteration; the body runs once for each value start,
\* start + step, ... that is not past the limit in the direction of the
\* sign of the step, not at all when the start is past the limit, and the
\* assignments of the body to the variables of the limit and of the step
\* do not change that.
C27_ControlsEvaluatedOnce ==
    last.op = "foronce"
      => /\ last.exc = NoExc
         /\ Global("c") = LuaInt(3)
         /\ Global("n") = LuaInt(ForCount(2 * last.a, 2 * last.b, last.h))
         /\ \A k \in 1..(2 * Cardinality(LoopLimits)) :
                GlobalAt("t", k)
                  = IF k <= ForCount(2 * last.a, 2 * last.b, last.h)
                    THEN ForValue(last.a, last.h, k)
                    ELSE LuaNil

\* for i = 1, 3 has run three times while the body moved the limit to 6
C27_Witness ==
    /\ last.op = "foronce"
    /\ last.a = 1 /\ last.b = 3 /\ last.h = 2
    /\ Global("c") = LuaInt(3)
    /\ Global("n") = LuaInt(3)
    /\ Global("lim") = LuaInt(6)

\* for i = 2, 1, -1 has run twice
C27_DescendingWitness ==
    /\ last.op = "foronce"
    /\ last.a = 2 /\ last.b = 1 /\ last.h = -2
    /\ Global("n") = LuaInt(2)

\* a loop whose start is past its limit has not run its body
C27_NoIterationWitness ==
    /\ last.op = "foronce"
    /\ last.a = 2 /\ last.b = 1 /\ last.h = 2
    /\ Global("n") = LuaInt(0)
    /\ Global("c") = LuaInt(3)

(***************************************************************************)
(* Generic for loops: the calls of the iterator and the loop variables.    *)
(***************************************************************************)
ForInNames == <<"x", "y", "z">>

\* the expression lists: the three values, a call that returns them, and
\* a call that returns five values
ForInShapes == {"list", "call", "call5"}
ForInExprs(shape) ==
    CASE shape = "list" -> <<Var("it"), Var("lim"), Num(0)>>
      [] shape = "call" -> <<Call(Var("mk"), <<>>)>>
      [] shape = "call5" -> <<Call(Var("mk5"), <<>>)>>

\* name[index] = value
SetAt(name, index, value) ==
    Assignment(<<Index(Var(name), Var(index))>>, <<Var(value)>>)

\* function it(s, c)
\*   k = k + 1 cs[k] = c ss[k] = s
\*   return c < s and c + 1 or nil, 20
\* end
\* function mk() e = e + 1 return it, lim, 0 end
\* function mk5() e = e + 1 return it, lim, 0, nil, 99 end
\* k, e, n, y, z, lim = 0, 0, 0, 77, 78, <lim>
\* cs, ss, xs, ys, zs = {}, {}, {}, {}, {}
\* for <names> in <exprs> do n = n + 1 xs[n] = x ys[n] = y zs[n] = z end
ForInChunk(nn, lim, shape) ==
    Chunk(Block(<<
        FunctionStatement(<<"it">>, FALSE, <<"s", "c">>,
            BlockReturn(<<Inc("k"), SetAt("cs", "k", "c"),
                          SetAt("ss", "k", "s")>>,
                <<BinOp(BinOp(BinOp(Var("c"), "<", Var("s")), "and",
                              BinOp(Var("c"), "+", Num(1))),
                        "or", Nil),
                  Num(20)>>)),
        FunctionStatement(<<"mk">>, FALSE, <<>>,
            BlockReturn(<<Inc("e")>>, <<Var("it"), Var("lim"), Num(0)>>)),
        FunctionStatement(<<"mk5">>, FALSE, <<>>,
            BlockReturn(<<Inc("e")>>,
                        <<Var("it"), Var("lim"), Num(0), Nil, Num(99)>>)),
        Assignment(<<Var("k"), Var("e"), Var("n"), Var("y"), Var("z"),
                     Var("lim")>>,
                   <<Num(0), Num(0), Num(0), Num(77), Num(78), Num(lim)>>),
        Assignment(<<Var("cs"), Var("ss"), Var("xs"), Var("ys"), Var("zs")>>,
                   <<Table(<<>>), Table(<<>>), Table(<<>>), Table(<<>>),
                     Table(<<>>)>>),
        ForIn(SubSeq(ForInNames, 1, nn), ForInExprs(shape),
              Block(<<Inc("n"), SetAt("xs", "n", "x"), SetAt("ys", "n", "y"),
                      SetAt("zs", "n", "z")>>))>>))

ExecForIn(nn, lim, shape) ==
    Exec(ForInChunk(nn, lim, shape),
         [op |-> "forin", nn |-> nn, lim |-> lim, shape |-> shape,
          vals |-> <<>>, exc |-> NoExc])

\* the limits of the loops: the iterator gives 1, ..., lim, so none or two
ForInLimits == {0, 2}

ForInNext ==
    \E nn \in 1..Len(ForInNames) : \E lim \in ForInLimits :
        \E shape \in ForInShapes : ExecForIn(nn, lim, shape)

SpecForIn == VMInit /\ [][ForInNext]_vars

\* C28: a generic for evaluates its expression list once, adjusted to four
\* values; before each iteration it calls the iterator with the state and
\* the control value, adjusts the results to the loop variables and binds
\* them; the body runs when the first result is not nil, and the loop ends
\* without running the body the first time it is nil.
C28_ForInProtocol ==
    last.op = "forin"
      => /\ last.exc = NoExc
         /\ Global("e") = (IF last.shape = "list" THEN LuaInt(0)
                           ELSE LuaInt(1))
         /\ Global("k") = LuaInt(last.lim + 1)
         /\ Global("n") = LuaInt(last.lim)
         /\ \A j \in 1..(last.lim + 2) :
              /\ GlobalAt("cs", j)
                   = (IF j <= last.lim + 1 THEN LuaInt(j - 1) ELSE LuaNil)
              /\ GlobalAt("ss", j)
                   = (IF j <= last.lim + 1 THEN LuaInt(last.lim)
                      ELSE LuaNil)
              /\ GlobalAt("xs", j)
                   = (IF j <= last.lim THEN LuaInt(j) ELSE LuaNil)
              /\ GlobalAt("ys", j)
                   = (IF j > last.lim THEN LuaNil
                      ELSE IF last.nn >= 2 THEN LuaInt(20) ELSE LuaInt(77))
              /\ GlobalAt("zs", j)
                   = (IF j > last.lim \/ last.nn >= 3 THEN LuaNil
                      ELSE LuaInt(78))

\* for x, y, z in mk() has run twice after three calls of the iterator
C28_Witness ==
    /\ last.op = "forin"
    /\ last.nn = 3 /\ last.lim = 2 /\ last.shape = "call"
    /\ Global("e") = LuaInt(1)
    /\ Global("k") = LuaInt(3)
    /\ Global("n") = LuaInt(2)
    /\ GlobalAt("ys", 2) = LuaInt(20)
    /\ GlobalAt("zs", 2) = LuaNil

\* a loop whose iterator gives nil at once has not run its body
C28_NoIterationWitness ==
    /\ last.op = "forin"
    /\ last.lim = 0
    /\ Global("k") = LuaInt(1)
    /\ Global("n") = LuaInt(0)

(***************************************************************************)
(* While and repeat loops whose body declares a local and creates a        *)
(* closure over it.                                                        *)
(***************************************************************************)
\* the body: k = k + 1 seen[k] = x local x = k
\*           fns[k] = function() return x end
LoopScopeBody ==
    <<Inc("k"),
      SetAt("seen", "k", "x"),
      LocalAssignment(<<"x">>, <<Var("k")>>),
      Assignment(<<Index(Var("fns"), Var("k"))>>,
                 <<FuncDef(<<>>, BlockReturn(<<>>, <<Var("x")>>))>>)>>

\* x, k, seen, fns = g, 0, {}, {}
\* while k < m do <body> end    or    repeat <body> until k >= m
\* return (fns[1]()), ..., (fns[m]())
LoopScopeChunk(kind, m, g) ==
    Chunk(BlockReturn(<<
        Assignment(<<Var("x"), Var("k"), Var("seen"), Var("fns")>>,
                   <<Num(g), Num(0), Table(<<>>), Table(<<>>)>>),
        IF kind = "while"
        THEN While(BinOp(Var("k"), "<", Num(m)), Block(LoopScopeBody))
        ELSE Repeat(Block(LoopScopeBody), BinOp(Var("k"), ">=", Num(m)))>>,
        [j \in 1..m |-> Paren(Call(Index(Var("fns"), Num(j)), <<>>))]))

ExecLoopScope(kind, m, g) ==
    Exec(LoopScopeChunk(kind, m, g),
         [op |-> "loopscope", kind |-> kind, m |-> m, g |-> g,
          vals |-> <<>>, exc |-> NoExc])

\* the values of the global x
LoopScopeGlobals == {100, 101, 102}

LoopScopeNext ==
    \E kind \in {"while", "repeat"} : \E m \in 1..(MaxLoop - 1) :
        \E g \in LoopScopeGlobals : ExecLoopScope(kind, m, g)

SpecLoopScope == VMInit /\ [][LoopScopeNext]_vars

\* C29: every iteration of a while or repeat loop runs its body in a fresh
\* Scope: a read of x before local x in iteration j gives the global x,
\* not the local of iteration j - 1, and the closure created in iteration j
\* returns the x of iteration j.
C29_FreshScopePerIteration ==
    last.op = "loopscope"
      => /\ last.exc = NoExc
         /\ \A j \in 1..last.m :
              /\ GlobalAt("seen", j) = LuaInt(last.g)
              /\ last.vals[j] = LuaInt(j)

\* what the source does: one Scope for all the iterations, so iteration j
\* reads the local of iteration j - 1 and every closure returns the last x
C29_OneScopeForTheLoop ==
    last.op = "loopscope"
      => /\ last.exc = NoExc
         /\ \A j \in 1..last.m :
              /\ GlobalAt("seen", j)
                   = (IF j = 1 THEN LuaInt(last.g) ELSE LuaInt(j - 1))
              /\ last.vals[j] = LuaInt(last.m)

(***************************************************************************)
(* Multiple assignments whose expressions read the targets.                *)
(***************************************************************************)
\* a, b = b, a; a, b = ev(b), ev(a); a, b = a + b, a;
\* t[1], t[2] = t[2], t[1]
SwapShapes == {"swap", "calls", "sum", "index"}
SwapStatement(shape) ==
    CASE shape = "swap" ->
            Assignment(<<Var("a"), Var("b")>>, <<Var("b"), Var("a")>>)
      [] shape = "calls" ->
            Assignment(<<Var("a"), Var("b")>>,
                       <<Call(Var("ev"), <<Var("b")>>),
                         Call(Var("ev"), <<Var("a")>>)>>)
      [] shape = "sum" ->
            Assignment(<<Var("a"), Var("b")>>,
                       <<BinOp(Var("a"), "+", Var("b")), Var("a")>>)
      [] shape = "index" ->
            Assignment(<<Index(Var("t"), Num(1)), Index(Var("t"), Num(2))>>,
                       <<Index(Var("t"), Num(2)), Index(Var("t"), Num(1))>>)

\* function ev(v) cnt = cnt + 1 ord[cnt] = v return v end
\* a, b, cnt, ord, t = va, vb, 0, {}, {va, vb}
\* <statement>
SwapChunk(shape, va, vb) ==
    Chunk(Block(<<
        FunctionStatement(<<"ev">>, FALSE, <<"v">>,
            BlockReturn(<<Inc("cnt"), SetAt("ord", "cnt", "v")>>,
                        <<Var("v")>>)),
        Assignment(<<Var("a"), Var("b"), Var("cnt"), Var("ord"), Var("t")>>,
                   <<Num(va), Num(vb), Num(0), Table(<<>>),
                     Table(<<Positional(Num(va)), Positional(Num(vb))>>)>>),
        SwapStatement(shape)>>))

ExecSwap(shape, va, vb) ==
    Exec(SwapChunk(shape, va, vb),
         [op |-> "swap", shape |-> shape, va |-> va, vb |-> vb,
          vals |-> <<>>, exc |-> NoExc])

\* the values of a and of b before the statement
SwapFirsts == {1, 2}
SwapSeconds == {3, 4, 5}

SwapNext ==
    \E shape \in SwapShapes : \E va \in SwapFirsts : \E vb \in SwapSeconds :
        ExecSwap(shape, va, vb)

SpecSwap == VMInit /\ [][SwapNext]_vars

\* C30: a multiple assignment evaluates all its expressions, from left to
\* right and once each, before it writes a target: every expression reads
\* the values of before the statement, so a, b = b, a swaps a and b.
C30_ExpressionsBeforeTargets ==
    last.op = "swap"
      => /\ last.exc = NoExc
         /\ last.shape \in {"swap", "calls"}
              => /\ Global("a") = LuaInt(last.vb)
                 /\ Global("b") = LuaInt(last.va)
         /\ last.shape = "calls"
              => /\ Global("cnt") = LuaInt(2)
                 /\ GlobalAt("ord", 1) = LuaInt(last.vb)
                 /\ GlobalAt("ord", 2) = LuaInt(last.va)
         /\ last.shape = "sum"
              => /\ Global("a") = LuaInt(last.va + last.vb)
                 /\ Global("b") = LuaInt(last.va)
         /\ last.shape = "index"
              => /\ GlobalAt("t", 1) = LuaInt(last.vb)
                 /\ GlobalAt("t", 2) = LuaInt(last.va)

\* a, b = b, a has swapped 1 and 3
C30_Witness ==
    /\ last.op = "swap"
    /\ last.shape = "swap" /\ last.va = 1 /\ last.vb = 3
    /\ Global("a") = LuaInt(3)
    /\ Global("b") = LuaInt(1)

====
